---- MODULE Spec2Model ----
(***************************************************************************)
(* Verification model of the dx-styles incremental CSS pipeline:           *)
(*   - Data Manager   (libs/src/data_manager.rs)                           *)
(*   - Generator      (libs/src/generator.rs)                              *)
(*   - Style Engine   (libs/src/engine.rs), as far as the Generator uses it*)
(*   - Class Interner (trash/libs/src/interner.rs)                         *)
(*   - Composite Registry (trash/libs/src/composites.rs)                   *)
(*   - control loop / background timer (trash/libs/src/main.rs,            *)
(*     libs/src/watcher.rs)                                                *)
(* CSS text is modelled as TLA+ strings, character by character.           *)
(***************************************************************************)
EXTENDS Integers, Sequences, FiniteSets, TLC

VARIABLES
    \* ---- Data Manager state (main.rs:164-166)
    file_ids,        \* HashMap<PathBuf, HashSet<u32>>  : function, DOMAIN = known paths
    id_counts,       \* HashMap<u32, u32>               : function, DOMAIN = ids with an entry
    global_ids,      \* HashSet<u32>
    last_update,     \* what the last update_class_maps_ids call did and returned
    removal_reports, \* per id: global removals reported since the id last became active
    \* ---- Generator statics and the output file (generator.rs:27-65, 951)
    out_file,             \* [exists, content] of the output path
    LAST_STATE,           \* AtomicU64: hash of the id set last recorded
    since_gen,            \* now - LAST_GENERATION_TIME in ms, capped at DEBOUNCE_MS
    PREV_CLASS_IDS,       \* RwLock<HashSet<u32>>
    NORMALIZED_CSS_CACHE, \* LruCache<u32, Arc<String>>
    NORMALIZE_CACHE,      \* LruCache<u64, Arc<String>>, keyed by the rule text
    PATH_CONTENT_CACHE,   \* entry of the output path: Option of a content hash
    last_call,            \* what the last generate_css_ids call was and did
    calls_left,           \* generate_css_ids calls the driver may still make
    \* ---- control loop and background thread (main.rs:299-516)
    pending_changes, \* AtomicBool
    bg_last_hash,    \* `last_hash` of the background thread (main.rs:317)
    since_poll,      \* ms since the background thread last woke, capped at DEBOUNCE_MS
    batch_paths,     \* paths of the current event batch that were processed
    events_left,     \* file events the watcher may still deliver
    \* ---- Composite Registry (composites.rs:16-23)
    reg_map,         \* CompositeRegistry.map  : hash string -> class name
    reg_data,        \* CompositeRegistry.data : class name -> Composite
    seahash,         \* the hex text of SeaHasher::finish() per hasher input
    reg_calls,       \* every (content, returned name) of get_or_create(_full) so far
    reg_last,        \* the last registry call: operation, content, returned name
    reg_left,        \* registry calls the driver may still make
    \* ---- Class Interner (interner.rs:5-9)
    int_map,         \* ClassInterner.map     : string -> id
    int_strings,     \* ClassInterner.strings : Vec<String>
    int_escaped,     \* ClassInterner.escaped : Vec<String>
    int_calls,       \* every intern call so far: string, returned id, and
                     \* whether the string was interned before the call
    \* ---- the two threads of the watch loop, step by step (main.rs:314-506)
    lk_pc,           \* position of the control loop and of the background thread
    lk_held,         \* how many of its mutexes each thread has locked
    lk_owner,        \* per mutex: the thread that holds it, or "none"
    \* ---- Grouping Parser (parser.rs:56-59)
    vis_class_names, \* ClassNameVisitor.class_names
    vis_components,  \* ClassNameVisitor.components : alias -> token list
    vis_last,        \* the last class attribute visited and what expand_grouping returned
    vis_left,        \* class attributes the driver may still visit
    \* ---- Style Engine (engine.rs:32-41): the engine holds the rule table only
    eng_last,        \* the last call: the token or batch and what it returned
    eng_seen,        \* per token resolved so far, what its first resolution returned
    eng_left         \* calls the driver may still make

dmVars == <<file_ids, id_counts, global_ids, last_update, removal_reports>>

genVars == <<out_file, LAST_STATE, since_gen, PREV_CLASS_IDS, NORMALIZED_CSS_CACHE,
             NORMALIZE_CACHE, PATH_CONTENT_CACHE, last_call, calls_left>>

watchVars == <<pending_changes, bg_last_hash, since_poll, batch_paths, events_left>>

regVars == <<reg_map, reg_data, seahash, reg_calls, reg_last, reg_left>>

intVars == <<int_map, int_strings, int_escaped, int_calls>>

lkVars == <<lk_pc, lk_held, lk_owner>>

visVars == <<vis_class_names, vis_components, vis_last, vis_left>>

\* the state of the drivers of the pure components
engVars == <<eng_last, eng_seen, eng_left>>

pureVars == <<visVars, engVars>>

libVars == <<regVars, intVars, lkVars, pureVars>>

vars == <<dmVars, genVars, watchVars, libVars>>

(***************************************************************************)
(* Bounds of the model.                                                    *)
(***************************************************************************)
NumFiles == 2
NumIds == 3

Files == 1 .. NumFiles
Ids == 0 .. (NumIds - 1)

\* Value a u32 holds after `*c -= 1` on 0 in a release build (u32::MAX); TLC's
\* integers are 32-bit signed, so the largest representable value stands for it.
U32_MAX == 2147483647

(***************************************************************************)
(* Text: std::str operations on TLA+ strings (1-based positions)           *)
(***************************************************************************)
Min(a, b) == IF a < b THEN a ELSE b
Max(a, b) == IF a > b THEN a ELSE b

\* Op applied to the value of a: the value is named once and computed once
With(a, Op(_)) == Op(a)

Option_None == [some |-> FALSE, v |-> ""]
Option_Some(v) == [some |-> TRUE, v |-> v]

CharAt(s, i) == SubSeq(s, i, i)

\* char::is_whitespace on the characters that occur in generated CSS
IsWhitespace(ch) == ch \in {" ", "\n", "\t", "\r"}

StartsWithAt(s, needle, i) ==
    /\ i >= 1
    /\ i + Len(needle) - 1 <= Len(s)
    /\ SubSeq(s, i, i + Len(needle) - 1) = needle

StartsWith(s, needle) == StartsWithAt(s, needle, 1)

EndsWith(s, needle) ==
    /\ Len(needle) <= Len(s)
    /\ SubSeq(s, Len(s) - Len(needle) + 1, Len(s)) = needle

\* the least i in lo .. hi at which needle occurs in s, 0 when there is none;
\* the range is halved so that the evaluation depth stays logarithmic
RECURSIVE FindIn(_, _, _, _)
FindIn(s, needle, lo, hi) ==
    IF lo > hi THEN 0
    ELSE IF lo = hi THEN (IF StartsWithAt(s, needle, lo) THEN lo ELSE 0)
    ELSE With(FindIn(s, needle, lo, (lo + hi) \div 2), LAMBDA l :
             IF l # 0 THEN l ELSE FindIn(s, needle, (lo + hi) \div 2 + 1, hi))

\* s[from..].find(needle): position of the first occurrence at or after `from`,
\* 0 when there is none
FindFrom(s, needle, from) == FindIn(s, needle, from, Len(s) - Len(needle) + 1)

\* the least i in lo .. hi with (s[i] \in chars) = member, 0 when there is none
RECURSIVE FirstCharIn(_, _, _, _, _)
FirstCharIn(s, chars, member, lo, hi) ==
    IF lo > hi THEN 0
    ELSE IF lo = hi THEN (IF (CharAt(s, lo) \in chars) = member THEN lo ELSE 0)
    ELSE With(FirstCharIn(s, chars, member, lo, (lo + hi) \div 2), LAMBDA l :
             IF l # 0 THEN l
             ELSE FirstCharIn(s, chars, member, (lo + hi) \div 2 + 1, hi))

\* the greatest such i, 0 when there is none
RECURSIVE LastCharIn(_, _, _, _, _)
LastCharIn(s, chars, member, lo, hi) ==
    IF lo > hi THEN 0
    ELSE IF lo = hi THEN (IF (CharAt(s, lo) \in chars) = member THEN lo ELSE 0)
    ELSE With(LastCharIn(s, chars, member, (lo + hi) \div 2 + 1, hi), LAMBDA r :
             IF r # 0 THEN r ELSE LastCharIn(s, chars, member, lo, (lo + hi) \div 2))

\* position of the first character from `from` on that is (member) / is not
\* (~member) in chars; Len(s) + 1 when there is none
Scan(s, chars, member, from) ==
    With(FirstCharIn(s, chars, member, from, Len(s)), LAMBDA i :
        IF i = 0 THEN Len(s) + 1 ELSE i)

WhitespaceChars == {" ", "\n", "\t", "\r"}

Find(s, needle) == FindFrom(s, needle, 1)

\* s.rfind(needle)
RECURSIVE RFindIn(_, _, _, _)
RFindIn(s, needle, lo, hi) ==
    IF lo > hi THEN 0
    ELSE IF lo = hi THEN (IF StartsWithAt(s, needle, lo) THEN lo ELSE 0)
    ELSE With(RFindIn(s, needle, (lo + hi) \div 2 + 1, hi), LAMBDA r :
             IF r # 0 THEN r ELSE RFindIn(s, needle, lo, (lo + hi) \div 2))

RFind(s, needle) == RFindIn(s, needle, 1, Len(s) - Len(needle) + 1)

Contains(s, needle) == Find(s, needle) # 0

\* s.trim_start(), s.trim_end(), s.trim()
TrimStart(s) == SubSeq(s, Scan(s, WhitespaceChars, FALSE, 1), Len(s))

TrimEnd(s) == SubSeq(s, 1, LastCharIn(s, WhitespaceChars, FALSE, 1, Len(s)))

Trim(s) == TrimStart(TrimEnd(s))

\* s.trim_end_matches(ch)
TrimEndMatches(s, ch) == SubSeq(s, 1, LastCharIn(s, {ch}, FALSE, 1, Len(s)))

\* s.split(sep) for a one-character separator: a sequence of strings
RECURSIVE Split(_, _)
Split(s, sep) ==
    With(Find(s, sep), LAMBDA i :
        IF i = 0 THEN <<s>>
        ELSE <<SubSeq(s, 1, i - 1)>> \o Split(SubSeq(s, i + 1, Len(s)), sep))

\* s.lines(): split at "\n"; a final line end adds no empty line
RECURSIVE StrLines(_)
StrLines(s) ==
    IF s = "" THEN << >>
    ELSE With(Find(s, "\n"), LAMBDA i :
             IF i = 0 THEN <<s>>
             ELSE <<SubSeq(s, 1, i - 1)>> \o StrLines(SubSeq(s, i + 1, Len(s))))

\* strs.join(sep)
RECURSIVE Join(_, _)
Join(strs, sep) ==
    IF Len(strs) = 0 THEN ""
    ELSE IF Len(strs) = 1 THEN strs[1]
    ELSE strs[1] \o sep \o Join(Tail(strs), sep)

\* s.replace(from, to) for a one-character `from`
RECURSIVE ReplaceChar(_, _, _)
ReplaceChar(s, from, to) ==
    IF s = "" THEN ""
    ELSE (IF CharAt(s, 1) = from THEN to ELSE CharAt(s, 1))
         \o ReplaceChar(SubSeq(s, 2, Len(s)), from, to)

\* s.split(|c| chars.contains(c)).filter(|s| !s.is_empty())
RECURSIVE SplitNonEmpty(_, _)
SplitNonEmpty(s, chars) ==
    With(Scan(s, chars, FALSE, 1), LAMBDA a :
        IF a > Len(s) THEN << >>
        ELSE With(Scan(s, chars, TRUE, a), LAMBDA b :
                 <<SubSeq(s, a, b - 1)>>
                 \o SplitNonEmpty(SubSeq(s, b, Len(s)), chars)))

\* .map(|s| s.trim()).filter(|s| !s.is_empty())
TrimmedNonEmpty(strs) ==
    SelectSeq([k \in 1 .. Len(strs) |-> Trim(strs[k])], LAMBDA t : t # "")

\* s.trim_start_matches(|c| chars.contains(c))
TrimStartMatches(s, chars) == SubSeq(s, Scan(s, chars, FALSE, 1), Len(s))

SeqToSet(seq) == {seq[i] : i \in 1 .. Len(seq)}

RECURSIVE Flatten(_)
Flatten(seqs) == IF seqs = << >> THEN << >> ELSE Head(seqs) \o Flatten(Tail(seqs))

(***************************************************************************)
(* Style Rule Table: the configuration the engine is loaded with           *)
(* (engine.rs:44-132).  A small table: static utilities, one breakpoint,   *)
(* two pseudo-states, one colour, three scale generators.                  *)
(***************************************************************************)
\* "p-2" is a static utility that a scale generator matches as well
precompiled ==
    [name \in {"btn", "btn-lg", "box", "p-2"} |->
        CASE name = "btn" -> "top: 0"
          [] name = "btn-lg" -> "top: 1"
          [] name = "box" -> "top: 2"
          [] name = "p-2" -> "padding: 9px"]

screens == [name \in {"md"} |-> "9px"]

\* a state value with '&' is a wrapper selector, one without is a suffix
states ==
    [name \in {"hover", "group-hover"} |->
        IF name = "hover" THEN ":hover" ELSE ".group:hover &"]

container_queries == [name \in {} |-> ""]

colors == [name \in {"red"} |-> "#f00"]

\* config.generators(): prefix, property, multiplier, unit.  The multipliers
\* are powers of two, written as fractions: f32 multiplication by them is
\* exact, so the decimal text below is the text f32 arithmetic gives.
generators ==
    <<[prefix |-> "p", property |-> "padding",
       multiplier |-> [num |-> 25, den |-> 100], unit |-> "rem"],
      [prefix |-> "z", property |-> "z-index",
       multiplier |-> [num |-> 1, den |-> 1], unit |-> ""],
      [prefix |-> "p-x", property |-> "padding-inline",
       multiplier |-> [num |-> 25, den |-> 100], unit |-> "rem"]>>

(***************************************************************************)
(* Style Engine                                                            *)
(***************************************************************************)
\* [A-Za-z0-9_-]
NameChars ==
    {"a", "b", "c", "d", "e", "f", "g", "h", "i", "j", "k", "l", "m",
     "n", "o", "p", "q", "r", "s", "t", "u", "v", "w", "x", "y", "z",
     "A", "B", "C", "D", "E", "F", "G", "H", "I", "J", "K", "L", "M",
     "N", "O", "P", "Q", "R", "S", "T", "U", "V", "W", "X", "Y", "Z",
     "0", "1", "2", "3", "4", "5", "6", "7", "8", "9", "_", "-"}

IsNameChar(ch) == ch \in NameChars

IsAsciiDigit(ch) == ch \in {"0", "1", "2", "3", "4", "5", "6", "7", "8", "9"}

\* cssparser::serialize_name: name characters are copied, every other printable
\* ASCII character is written with a backslash before it
RECURSIVE serialize_name(_)
serialize_name(s) ==
    IF s = "" THEN ""
    ELSE (IF IsNameChar(CharAt(s, 1)) THEN CharAt(s, 1) ELSE "\\" \o CharAt(s, 1))
         \o serialize_name(SubSeq(s, 2, Len(s)))

\* cssparser::serialize_identifier as called at engine.rs:221 and interner.rs:40
\* (it cannot fail on a String sink, so the hand-written fallback never runs)
serialize_identifier(s) ==
    IF s = "" THEN ""
    ELSE IF StartsWith(s, "--") THEN "--" \o serialize_name(SubSeq(s, 3, Len(s)))
    ELSE IF s = "-" THEN "\\-"
    ELSE LET dash == IF CharAt(s, 1) = "-" THEN "-" ELSE ""
             rest == IF CharAt(s, 1) = "-" THEN SubSeq(s, 2, Len(s)) ELSE s
         IN  IF rest # "" /\ IsAsciiDigit(CharAt(rest, 1))
             THEN dash \o "\\3" \o CharAt(rest, 1) \o " "
                       \o serialize_name(SubSeq(rest, 2, Len(rest)))
             ELSE dash \o serialize_name(rest)

\* engine.rs:1236-1268
BlockParts(decl_raw) ==
    IF decl_raw = "" THEN << >>
    ELSE IF Contains(decl_raw, ";") THEN Split(decl_raw, ";")
    ELSE <<decl_raw>>

\* the key a part is stored under in `seen` (engine.rs:1246-1250); none without ':'
PartKey(p) ==
    With(Find(p, ":"), LAMBDA idx :
        IF idx = 0 THEN Option_None ELSE Option_Some(Trim(SubSeq(p, 1, idx - 1))))

\* the part is stored in `seen` under `name`
HasKey(p, name) == With(PartKey(p), LAMBDA key : key.some /\ key.v = name)

\* p.trim().split(':').next().trim()  (engine.rs:1259)
PartName(p) == Trim(Split(Trim(p), ":")[1])

RECURSIVE BlockLines(_, _)
BlockLines(parts, i) ==
    IF i > Len(parts) THEN ""
    ELSE With(Trim(parts[i]), LAMBDA pt :
         With(PartName(parts[i]), LAMBDA name :
             \* seen.get(name) == Some(&i): i is the last part stored under `name`
             (IF /\ pt # ""
                 /\ HasKey(parts[i], name)
                 /\ \A j \in (i + 1) .. Len(parts) : ~HasKey(parts[j], name)
              THEN "  " \o TrimEndMatches(pt, ";") \o ";\n" ELSE "")))
         \o BlockLines(parts, i + 1)

build_block(selector, declarations) ==
    LET decl_raw == Trim(TrimEndMatches(Trim(declarations), ";"))
    IN  selector \o " {\n" \o BlockLines(BlockParts(decl_raw), 1) \o "}\n"

\* engine.rs:1270-1294
RECURSIVE PopDoubleSemicolons(_)
PopDoubleSemicolons(s) ==
    IF EndsWith(s, ";;") THEN PopDoubleSemicolons(SubSeq(s, 1, Len(s) - 1)) ELSE s

\* engine.rs:1276-1291: the malformed pair at pos is split in two declarations
SplitScalePair(out, pos) ==
    With(FindFrom(out, ":", pos) + 1, LAMBDA val_start_abs :
        IF val_start_abs > Len(out) THEN out
        ELSE With(SubSeq(out, val_start_abs, Len(out)), LAMBDA rest :
             With(Trim(Split(rest, ";")[1]), LAMBDA value :
             With(Find(rest, ";"), LAMBDA end_seg :
                 SubSeq(out, 1, pos - 1)
                 \o "--transform-scale-x: " \o value
                 \o "; --transform-scale-y: " \o value
                 \o (IF end_seg # 0
                     THEN SubSeq(out, val_start_abs + end_seg, Len(out)) ELSE "")))))

sanitize_declarations(input) ==
    With(PopDoubleSemicolons(Trim(input)), LAMBDA out :
    With(Find(out, "--transform-scale-x, --transform-scale-y:"), LAMBDA pos :
        IF pos = 0 THEN out ELSE SplitScalePair(out, pos)))

\* engine.rs:1213-1233: one wrap, for one media query
RECURSIVE IndentLines(_)
IndentLines(lines) ==
    IF Len(lines) = 0 THEN ""
    ELSE (IF lines[1] = "" THEN "" ELSE "  " \o lines[1] \o "\n")
         \o IndentLines(Tail(lines))

\* media_queries.iter().rev(): the last query wraps first (innermost)
RECURSIVE WrapAll(_, _)
WrapAll(css_body, media_queries) ==
    IF Len(media_queries) = 0 THEN css_body
    ELSE LET mq == media_queries[Len(media_queries)]
             wrapped == mq \o " {\n" \o IndentLines(StrLines(TrimEnd(css_body))) \o "}\n"
         IN  WrapAll(wrapped, SubSeq(media_queries, 1, Len(media_queries) - 1))

\* engine.rs:1213-1233 without the wrapping
wrap_media_queries_Mut_NoWrap(css_body, media_queries) ==
    IF EndsWith(css_body, "\n") THEN css_body ELSE css_body \o "\n"

wrap_media_queries(css_body, media_queries) ==
    With(WrapAll(css_body, media_queries), LAMBDA body :
        IF EndsWith(body, "\n") THEN body ELSE body \o "\n")

\* engine.rs:895-901
IsEncoded(css) ==
    \E tag \in {"BASE|", "STATE|", "CHILD|", "COND|", "DATA|", "RAW|", "ANIM|"} :
        Contains(css, tag)

\* engine.rs:903-916 and :933-945: the blocks of one declaration list, as
\* <<selector, declarations>>: one for the selector itself, or one for every
\* wrapper with '&' replaced by the selector
SelectorBlocks(wrappers, selector, decls) ==
    IF Len(wrappers) = 0 THEN << <<selector, decls>> >>
    ELSE [i \in 1 .. Len(wrappers) |->
             <<ReplaceChar(wrappers[i], "&", selector), decls>>]

\* splitn(2, '|')
SplitN2(rest) ==
    With(Find(rest, "|"), LAMBDA i :
        IF i = 0 THEN <<rest, "">>
        ELSE <<SubSeq(rest, 1, i - 1), SubSeq(rest, i + 1, Len(rest))>>)

\* engine.rs:946-960: the blocks of a STATE line
StateBlocks(selector, p) ==
    IF p[1] = "dark" THEN << <<".dark " \o selector, p[2]>> >>
    ELSE IF p[1] = "light"
    THEN << <<":root " \o selector, p[2]>>, <<".light " \o selector, p[2]>> >>
    ELSE << <<selector \o ":" \o p[1], p[2]>> >>

\* engine.rs:867-879
generate_color_css(class_name) ==
    IF StartsWith(class_name, "bg-") /\ SubSeq(class_name, 4, Len(class_name)) \in DOMAIN colors
    THEN Option_Some("background-color: " \o colors[SubSeq(class_name, 4, Len(class_name))])
    ELSE IF StartsWith(class_name, "text-")
            /\ SubSeq(class_name, 6, Len(class_name)) \in DOMAIN colors
    THEN Option_Some("color: " \o colors[SubSeq(class_name, 6, Len(class_name))])
    ELSE Option_None

\* engine.rs:881-890
generate_animation_css(full_class) ==
    IF ~StartsWith(full_class, "animate:") THEN Option_None
    ELSE With(Split(SubSeq(full_class, 9, Len(full_class)), ":"), LAMBDA parts :
             \* duration, delay
             Option_Some("ANIM|animate|" \o parts[1] \o "|"
                         \o (IF Len(parts) >= 2 THEN parts[2] ELSE "0s")))

\* the value of a decimal digit
DigitValue(ch) == CHOOSE d \in 0 .. 9 : ToString(d) = ch

AllDigits(s) == \A k \in 1 .. Len(s) : IsAsciiDigit(CharAt(s, k))

\* the number a text of decimal digits writes, 0 for the empty text
RECURSIVE DecimalValue(_)
DecimalValue(s) ==
    IF s = "" THEN 0
    ELSE DecimalValue(SubSeq(s, 1, Len(s) - 1)) * 10 + DigitValue(CharAt(s, Len(s)))

RECURSIVE Pow10(_)
Pow10(k) == IF k = 0 THEN 1 ELSE 10 * Pow10(k - 1)

\* an f32 as sign and magnitude: a decimal fraction num / den with den a power
\* of ten, an infinity, or NaN
F32(kind, neg, num, den) == [kind |-> kind, neg |-> neg, num |-> num, den |-> den]

\* str::parse::<f32>() on texts without exponent: an optional sign, then
\* digits with at most one point and at least one digit, or inf, infinity, nan
\* (lower case here).  A text of up to 7 significant digits is read exactly as
\* far as Display shows.
ParseF32(s) ==
    With(IF s # "" /\ CharAt(s, 1) \in {"+", "-"} THEN SubSeq(s, 2, Len(s)) ELSE s,
         LAMBDA body :
        With(Find(body, "."), LAMBDA dot :
            With([int |-> IF dot = 0 THEN body ELSE SubSeq(body, 1, dot - 1),
                  frac |-> IF dot = 0 THEN "" ELSE SubSeq(body, dot + 1, Len(body)),
                  neg |-> s # "" /\ CharAt(s, 1) = "-"],
                 LAMBDA t :
                IF body \in {"inf", "infinity"}
                THEN [some |-> TRUE, v |-> F32("inf", t.neg, 0, 1)]
                ELSE IF body = "nan"
                THEN [some |-> TRUE, v |-> F32("nan", t.neg, 0, 1)]
                ELSE IF AllDigits(t.int) /\ AllDigits(t.frac) /\ t.int \o t.frac # ""
                THEN [some |-> TRUE,
                      v |-> F32("num", t.neg, DecimalValue(t.int \o t.frac),
                                Pow10(Len(t.frac)))]
                ELSE [some |-> FALSE, v |-> F32("nan", FALSE, 0, 1)])))

\* the f32 negated if negate, the multiplier left out
F32Mul_Mut_NoMultiplier(x, m, negate) ==
    F32(x.kind, x.neg # negate, x.num, x.den)

\* the product of an f32 and a multiplier of the rule table, negated if negate
F32Mul(x, m, negate) ==
    F32(x.kind, x.neg # negate, x.num * m.num, x.den * m.den)

\* the digits of num / den after the point, without trailing zeros
RECURSIVE FractionDigits(_, _)
FractionDigits(num, den) ==
    IF num = 0 \/ den = 1 THEN ""
    ELSE ToString((num * 10) \div den) \o FractionDigits((num * 10) % den, den)

\* format!("{}", x) for an f32
F32Display(x) ==
    IF x.kind = "nan" THEN "NaN"
    ELSE (IF x.neg THEN "-" ELSE "")
         \o (IF x.kind = "inf" THEN "inf"
             ELSE ToString(x.num \div x.den)
                  \o (IF x.num % x.den = 0 THEN ""
                      ELSE "." \o FractionDigits(x.num % x.den, x.den)))

\* engine.rs:829-860: the generators from the k-th on
RECURSIVE ScaleRule(_, _)
ScaleRule(class_name, k) ==
    IF k > Len(generators) THEN Option_None
    ELSE With(generators[k], LAMBDA g :
        IF ~StartsWith(class_name, g.prefix \o "-")                       \* :834
        THEN ScaleRule(class_name, k + 1)
        ELSE With(SubSeq(class_name, Len(g.prefix) + 2, Len(class_name)),
                  LAMBDA value_str :
            With(StartsWith(value_str, "-"), LAMBDA is_negative :         \* :836
                With(IF is_negative THEN SubSeq(value_str, 2, Len(value_str))
                     ELSE value_str, LAMBDA digits :
                    With(IF digits = ""                                   \* :843
                         THEN [some |-> TRUE, v |-> F32("num", FALSE, 1, 1)]
                         ELSE ParseF32(digits), LAMBDA num_val :
                        IF ~num_val.some THEN ScaleRule(class_name, k + 1) \* :848
                        ELSE Option_Some(
                                 g.property \o ": "
                                 \o F32Display(F32Mul(num_val.v, g.multiplier,
                                                      is_negative))
                                 \o g.unit))))))

\* engine.rs:817-865
generate_dynamic_css(class_name) ==
    IF StartsWith(class_name, "transition(")
       /\ FindFrom(class_name, ")", 12) # 0
    THEN With(SubSeq(class_name, 12, FindFrom(class_name, ")", 12) - 1), LAMBDA dur :
             Option_Some("transition-property: all; transition-duration: "
                 \o (IF dur = "" THEN "150ms" ELSE dur)
                 \o "; transition-timing-function: cubic-bezier(0.4,0,0.2,1)"))
    ELSE ScaleRule(class_name, 1)

\* the text of blocks: every block from build_block, "\n" between two blocks
BlocksText(blocks) ==
    Join([i \in 1 .. Len(blocks) |-> build_block(blocks[i][1], blocks[i][2])], "\n")

\* engine.rs:985-989: every line of the block indented by two spaces
RECURSIVE IndentAll(_)
IndentAll(lines) ==
    IF lines = << >> THEN ""
    ELSE "  " \o Head(lines) \o "\n" \o IndentAll(Tail(lines))

\* engine.rs:980-1010: what a COND line adds to out
CondText(selector, cond, decls) ==
    IF StartsWith(cond, "@container>")                                    \* :983
    THEN "@container (min-width: " \o SubSeq(cond, 12, Len(cond)) \o ") {\n"
         \o IndentAll(StrLines(build_block(selector, decls))) \o "}\n"
    ELSE IF StartsWith(cond, "screen:")                                   \* :992
    THEN IF SubSeq(cond, 8, Len(cond)) \notin DOMAIN screens THEN ""
         ELSE "@media (min-width: " \o screens[SubSeq(cond, 8, Len(cond))]
              \o ") {\n"
              \o IndentAll(StrLines(build_block(selector, decls))) \o "}\n"
    ELSE IF StartsWith(cond, "self:child-count>")                         \* :1003
    THEN With(SubSeq(cond, 18, Len(cond)), LAMBDA rest :
             \* rest.parse::<usize>()
             IF rest = "" \/ ~AllDigits(rest) THEN ""
             ELSE IF DecimalValue(rest) > 0
             THEN build_block(selector \o ":has(> :nth-last-child(n+"
                                  \o ToString(DecimalValue(rest))
                                  \o "):first-child)", decls) \o "\n"
             ELSE build_block(selector, decls) \o "\n")
    ELSE ""

\* engine.rs:22-30: PendingAnimation; some is FALSE while pending_anim is None
NoPendingAnimation ==
    [some |-> FALSE, duration |-> "1s", delay |-> "0s", fill_mode |-> "",
     from |-> << >>, via |-> << >>, to_ |-> << >>, has_main |-> FALSE]

\* engine.rs:1021-1070: what an ANIM line does to pending_anim
AnimLine(parts, pa) ==
    IF parts[1] = "animate"                                               \* :1027
    THEN [pa EXCEPT !.some = TRUE,
                    !.duration = IF Len(parts) >= 2 THEN parts[2] ELSE "1s",
                    !.delay = IF Len(parts) >= 3 THEN parts[3] ELSE "0s",
                    !.has_main = TRUE]
    ELSE IF parts[1] = "fill" /\ Len(parts) >= 2                          \* :1043
    THEN [pa EXCEPT !.some = TRUE, !.fill_mode = parts[2]]
    ELSE IF parts[1] = "from" /\ Len(parts) >= 2                          \* :1056
    THEN [pa EXCEPT !.some = TRUE, !.from = Append(@, parts[2])]
    ELSE IF parts[1] = "to" /\ Len(parts) >= 2
    THEN [pa EXCEPT !.some = TRUE, !.to_ = Append(@, parts[2])]
    ELSE IF parts[1] = "via" /\ Len(parts) >= 2
    THEN [pa EXCEPT !.some = TRUE, !.via = Append(@, parts[2])]
    ELSE pa

\* engine.rs:924-1078: what one encoded line adds to out and does to
\* pending_anim, for D = [out, pa]
EncodedLine(line, selector, wrappers, D) ==
    IF line = "" THEN D
    ELSE IF StartsWith(line, "BASE|") THEN
        \* is_responsive_group
        IF \E bp \in DOMAIN screens : StartsWith(selector, "." \o bp \o "\\(")
        THEN D
        ELSE [D EXCEPT !.out = @ \o BlocksText(SelectorBlocks(wrappers, selector,
                                                  SubSeq(line, 6, Len(line))))
                               \o "\n"]
    ELSE IF StartsWith(line, "STATE|")
    THEN [D EXCEPT !.out = @ \o BlocksText(StateBlocks(selector,
                                               SplitN2(SubSeq(line, 7, Len(line)))))
                           \o "\n"]
    ELSE IF StartsWith(line, "CHILD|") THEN
        With(SplitN2(SubSeq(line, 7, Len(line))), LAMBDA p :
            [D EXCEPT !.out = @ \o build_block(selector \o " > " \o p[1], p[2])
                              \o "\n"])
    ELSE IF StartsWith(line, "DATA|") THEN
        With(SplitN2(SubSeq(line, 6, Len(line))), LAMBDA p :
            [D EXCEPT !.out = @ \o build_block(selector \o "[data-" \o p[1] \o "]",
                                              p[2])
                              \o "\n"])
    ELSE IF StartsWith(line, "COND|") THEN
        With(SplitN2(SubSeq(line, 6, Len(line))), LAMBDA p :
            [D EXCEPT !.out = @ \o CondText(selector, p[1], p[2])])
    ELSE IF StartsWith(line, "ANIM|")
    THEN [D EXCEPT !.pa = AnimLine(Split(SubSeq(line, 6, Len(line)), "|"), @)]
    ELSE IF StartsWith(line, "RAW|") THEN
        With(SubSeq(line, 5, Len(line)), LAMBDA raw :
            [D EXCEPT !.out = @ \o raw \o (IF EndsWith(raw, "\n") THEN "" ELSE "\n")])
    ELSE D

RECURSIVE EncodedLines(_, _, _, _)
EncodedLines(lines, selector, wrappers, D) ==
    IF Len(lines) = 0 THEN D
    ELSE EncodedLines(Tail(lines), selector, wrappers,
                      EncodedLine(lines[1], selector, wrappers, D))

\* engine.rs:1166-1187: the declaration one piece of an animation stage
\* resolves to, "" when none
PieceDecl(piece) ==
    IF piece \in DOMAIN precompiled THEN precompiled[piece]                \* :1166
    ELSE IF /\ StartsWith(piece, "opacity-")                               \* :1170
            /\ Len(piece) > 8
            /\ AllDigits(SubSeq(piece, 9, Len(piece)))
    THEN With(DecimalValue(SubSeq(piece, 9, Len(piece))), LAMBDA num :
             "opacity: " \o (IF num >= 100 THEN "1"
                             ELSE F32Display(F32("num", FALSE, num, 100))))
    ELSE IF generate_color_css(piece).some THEN generate_color_css(piece).v
    ELSE IF generate_dynamic_css(piece).some THEN generate_dynamic_css(piece).v
    ELSE ""

\* engine.rs:1158-1211
resolve_animation_tokens(tokens) ==
    With(SelectSeq(
             Flatten([k \in 1 .. Len(tokens) |->
                 With(TrimmedNonEmpty(Split(tokens[k], "+")), LAMBDA pieces :
                     [j \in 1 .. Len(pieces) |-> PieceDecl(pieces[j])])]),
             LAMBDA d : d # ""),
         LAMBDA decls :
        \* :1191-1209: of the declarations of one property the last one stays
        Join(SelectSeq(
                 [i \in 1 .. Len(decls) |->
                     IF /\ PartKey(decls[i]).some
                        /\ \A j \in (i + 1) .. Len(decls) :
                               PartKey(decls[j]) # PartKey(decls[i])
                     THEN TrimEndMatches(Trim(decls[i]), ";") ELSE ""],
                 LAMBDA d : d # ""),
             "; "))

\* format!("{:x}", seahash::hash(bytes)): a fixed function of the bytes that
\* the model does not compute; the text stands for the hash of `bytes`
\* (64-bit collisions are left out)
SeaHashHex(bytes) == "<" \o bytes \o ">"

\* engine.rs:1088-1103: the frames of the animation: from at 0, to at 100, the
\* i-th of n via at the whole part of i * 100 / (n + 1), sorted by percentage.
\* The sort is stable, a via is below 100 and the vias are pushed in ascending
\* order after from: sorted, they stand between from and to.
Frames_Mut_NoTo(pa) ==
    (IF pa.from = << >> THEN << >>
     ELSE <<[pct |-> 0, decls |-> resolve_animation_tokens(pa.from)]>>)
    \o [i \in 1 .. Len(pa.via) |->
           [pct |-> (i * 100) \div (Len(pa.via) + 1),
            decls |-> resolve_animation_tokens(<<pa.via[i]>>)]]

\* engine.rs:1088-1103
Frames(pa) ==
    (IF pa.from = << >> THEN << >>
     ELSE <<[pct |-> 0, decls |-> resolve_animation_tokens(pa.from)]>>)
    \o [i \in 1 .. Len(pa.via) |->
           [pct |-> (i * 100) \div (Len(pa.via) + 1),
            decls |-> resolve_animation_tokens(<<pa.via[i]>>)]]
    \o (IF pa.to_ = << >> THEN << >>
        ELSE <<[pct |-> 100, decls |-> resolve_animation_tokens(pa.to_)]>>)

\* engine.rs:1104-1116
RECURSIVE KeyframeBody(_)
KeyframeBody(frames) ==
    IF frames = << >> THEN ""
    ELSE With(Trim(Head(frames).decls), LAMBDA dtrim :
             (IF dtrim = "" THEN ""
              ELSE "  " \o ToString(Head(frames).pct) \o "% { " \o dtrim
                   \o (IF EndsWith(dtrim, ";") THEN "" ELSE ";") \o " }\n"))
         \o KeyframeBody(Tail(frames))

\* engine.rs:1124-1146: the value of the animation declaration
AnimationShorthand(pa, hash) ==
    With(SelectSeq(<<pa.duration>>
                   \o (IF pa.delay # "0s" THEN <<pa.delay>> ELSE << >>)
                   \o (IF pa.fill_mode # "" THEN <<pa.fill_mode>> ELSE << >>)
                   \o <<"dx-animation-" \o hash>>,
                   LAMBDA q : ~\E pre \in {"from(", "to(", "via("} :
                                  StartsWith(q, pre)),
         LAMBDA parts :
        Join(SelectSeq([i \in 1 .. Len(parts) |->
                           IF parts[i] = "forwards"
                              /\ \E j \in 1 .. (i - 1) : parts[j] = "forwards"
                           THEN "" ELSE parts[i]],
                       LAMBDA q : q # ""),
             " "))

\* engine.rs:1079-1150: what the pending animation adds to out
AnimationText(pa, selector) ==
    IF ~pa.some \/ ~pa.has_main THEN ""
    ELSE With(IF Find(selector, "\\ ") # 0
              THEN SubSeq(selector, 1, Find(selector, "\\ ") - 1) ELSE selector,
              LAMBDA base_selector :
        With(KeyframeBody(Frames(pa)), LAMBDA kf_body :
            IF kf_body = "" THEN ""
            ELSE "@keyframes dx-animation-" \o SeaHashHex(base_selector) \o " {\n"
                 \o kf_body \o "}\n\n"
                 \o build_block(base_selector,
                                "animation: "
                                \o AnimationShorthand(pa, SeaHashHex(base_selector)))))

\* s without one final "\n"
PopNewline(s) == IF EndsWith(s, "\n") THEN SubSeq(s, 1, Len(s) - 1) ELSE s

\* engine.rs:894-1156
decode_encoded_css(css, selector, wrappers) ==
    IF ~IsEncoded(css) THEN BlocksText(SelectorBlocks(wrappers, selector, css))
    ELSE With(EncodedLines(IF Contains(css, "\n") THEN StrLines(css) ELSE <<css>>,
                           selector, wrappers,
                           [out |-> "", pa |-> NoPendingAnimation]),
              LAMBDA D : PopNewline(D.out \o AnimationText(D.pa, selector)))

\* a.or_else(|| b)
OrElse(a, b) == IF a.some THEN a ELSE b

\* engine.rs:174-193: what one variant prefix adds to acc
PrefixPart(part, acc) ==
    IF part \in DOMAIN screens
    THEN [acc EXCEPT !.media_queries =
             Append(@, "@media (min-width: " \o screens[part] \o ")")]
    ELSE IF part \in DOMAIN container_queries
    THEN [acc EXCEPT !.media_queries =
             Append(@, "@container (min-width: " \o container_queries[part] \o ")")]
    ELSE IF part \in DOMAIN states
    THEN IF Contains(states[part], "&")
         THEN [acc EXCEPT !.wrappers = Append(@, states[part])]
         ELSE [acc EXCEPT !.pseudo_classes = @ \o states[part]]
    ELSE IF part = "dark" THEN [acc EXCEPT !.wrappers = Append(@, ".dark &")]
    ELSE IF part = "light" THEN [acc EXCEPT !.wrappers = Append(@, ":root &")]
    ELSE acc

\* engine.rs:172-194: what the variant-prefix chain contributes
RECURSIVE PrefixParts(_, _)
PrefixParts(parts, acc) ==
    IF Len(parts) = 0 THEN acc
    ELSE PrefixParts(Tail(parts), PrefixPart(parts[1], acc))

\* engine.rs:432-528: what resolve_tokens pushes for one token.  Tokens that
\* begin with fluid:, motion: or gradient:mesh: (:438-511) take f32 formatting,
\* SeaHash and trigonometry; no composite of the behaviours below holds one,
\* and the model pushes nothing for them.
ResolveToken(t) ==
    IF StartsWith(t, "animfill:")                                         \* :434
    THEN [base |-> << >>, anim |-> <<"ANIM|fill|" \o SubSeq(t, 10, Len(t))>>]
    ELSE IF \E pre \in {"fluid:", "motion:", "gradient:mesh:"} : StartsWith(t, pre)
    THEN [base |-> << >>, anim |-> << >>]
    ELSE IF t \in DOMAIN precompiled                                      \* :513
    THEN [base |-> <<precompiled[t]>>, anim |-> << >>]
    ELSE IF generate_color_css(t).some                                    \* :515
    THEN [base |-> <<generate_color_css(t).v>>, anim |-> << >>]
    ELSE IF generate_dynamic_css(t).some                                  \* :517
    THEN [base |-> <<generate_dynamic_css(t).v>>, anim |-> << >>]
    ELSE IF generate_animation_css(t).some                                \* :519
    THEN [base |-> << >>, anim |-> <<generate_animation_css(t).v>>]
    ELSE [base |-> << >>, anim |-> << >>]

\* engine.rs:432-528: the closure resolve_tokens
RECURSIVE resolve_tokens(_)
resolve_tokens(tokens) ==
    IF tokens = << >> THEN [base |-> << >>, anim |-> << >>]
    ELSE With(ResolveToken(Head(tokens)), LAMBDA h :
             With(resolve_tokens(Tail(tokens)), LAMBDA r :
                 [base |-> h.base \o r.base, anim |-> h.anim \o r.anim]))

\* engine.rs:536-575: the sections of the rules of one kind: a line
\* TAG|name|declarations if the tokens resolve to declarations, then the
\* animation lines of the tokens
RECURSIVE RuleSections(_, _)
RuleSections(tag, rules) ==
    IF rules = << >> THEN << >>
    ELSE With(resolve_tokens(Head(rules)[2]), LAMBDA r :
             (IF Join(r.base, "; ") = "" THEN << >>
              ELSE <<tag \o "|" \o Head(rules)[1] \o "|" \o Join(r.base, "; ")>>)
             \o r.anim \o RuleSections(tag, Tail(rules)))

\* engine.rs:425-608: Composite Registry lookup; `registry` is the registry's
\* data map
expand_composite(class_name, registry) ==
    IF class_name \notin DOMAIN registry THEN Option_None                 \* :426-431
    ELSE With(registry[class_name], LAMBDA comp :
        With(resolve_tokens(comp.base), LAMBDA b :
            With((IF Join(b.base, "; ") = "" THEN << >>                   \* :532-535
                  ELSE <<"BASE|" \o Join(b.base, "; ")>>)
                 \o RuleSections("CHILD", comp.child_rules)
                 \o RuleSections("STATE", comp.state_rules)
                 \o RuleSections("DATA", comp.data_attr_rules)
                 \o RuleSections("COND", comp.conditional_blocks)
                 \o b.anim                                                \* :576
                 \o [k \in 1 .. Len(comp.animations) |->
                        "ANIM|" \o comp.animations[k]]
                 \o [k \in 1 .. Len(comp.extra_raw) |->
                        "RAW|" \o comp.extra_raw[k]],
                 LAMBDA sections :
                IF sections = << >> THEN Option_None
                ELSE Option_Some(Join(sections, "\n")))))

NoPrefix == [media_queries |-> << >>, pseudo_classes |-> "", wrappers |-> << >>]

\* engine.rs:196-215 with the scale utility tried before the static table
CoreCssRaw_Mut_DynamicFirst(class_name, base_class, registry) ==
    OrElse(expand_composite(class_name, registry),
    OrElse(generate_dynamic_css(base_class),
    OrElse(IF base_class \in DOMAIN precompiled
           THEN Option_Some(precompiled[base_class]) ELSE Option_None,
    OrElse(generate_color_css(base_class),
    OrElse(IF Contains(class_name, " ") THEN Option_None
           ELSE generate_animation_css(class_name),
           expand_composite(base_class, registry))))))

\* engine.rs:196-215: the first source that resolves the class
CoreCssRaw(class_name, base_class, registry) ==
    OrElse(expand_composite(class_name, registry),
    OrElse(IF base_class \in DOMAIN precompiled
           THEN Option_Some(precompiled[base_class]) ELSE Option_None,
    OrElse(generate_color_css(base_class),
    OrElse(IF Contains(class_name, " ") THEN Option_None
           ELSE generate_animation_css(class_name),
    OrElse(generate_dynamic_css(base_class),
           expand_composite(base_class, registry))))))

\* engine.rs:217-249
RenderRule(class_name, core_css_raw, pre) ==
    IF ~core_css_raw.some THEN Option_None
    ELSE Option_Some(wrap_media_queries(
             decode_encoded_css(sanitize_declarations(core_css_raw.v),
                                "." \o serialize_identifier(class_name)
                                    \o pre.pseudo_classes,
                                pre.wrappers),
             pre.media_queries))

\* engine.rs:153-250
compute_css(class_name, registry) ==
    IF \/ StartsWith(class_name, "from(") \/ StartsWith(class_name, "to(")
       \/ StartsWith(class_name, "via(")
    THEN Option_None
    ELSE With(RFind(class_name, ":"), LAMBDA last_colon :
         With(IF last_colon # 0 THEN SubSeq(class_name, 1, last_colon - 1) ELSE "",
              LAMBDA prefix_segment :
         With(IF last_colon # 0
              THEN SubSeq(class_name, last_colon + 1, Len(class_name))
              ELSE class_name,
              LAMBDA base_class :
             RenderRule(class_name,
                        CoreCssRaw(class_name, base_class, registry),
                        IF prefix_segment = "" THEN NoPrefix
                        ELSE PrefixParts(Split(prefix_segment, ":"), NoPrefix)))))

\* the names the interner holds, in id order: interner.get(id)
ClassNames == <<"btn", "zz", "btn-lg", "md:btn", "box", "dx-class-9f3c2a1b">>

\* the ids of the names an engine without composites is asked for
ClassIds == {id \in 0 .. (Len(ClassNames) - 1) :
                ~StartsWith(ClassNames[id + 1], "dx-class-")}

interner_get(id) == ClassNames[id + 1]

\* the engine of the generator's behaviours holds no composite
NoRegistry == << >>

\* token.strip_prefix(pre) and then strip_suffix(')'): the body of a stage
\* token pre...), none for any other token
StageBody(token, pre) ==
    IF StartsWith(token, pre) /\ EndsWith(SubSeq(token, Len(pre) + 1, Len(token)), ")")
    THEN Option_Some(SubSeq(token, Len(pre) + 1, Len(token) - 1))
    ELSE Option_None

\* engine.rs:680-725: the stage texts the tokens `others` give for the stage
\* that begins with pre: the tokens of the body joined by '+', if there are any
StageTokens(others, pre) ==
    SelectSeq([k \in 1 .. Len(others) |->
                  IF others[k] # "forwards" /\ StageBody(others[k], pre).some
                  THEN Join(SplitNonEmpty(StageBody(others[k], pre).v,
                                          WhitespaceChars), "+")
                  ELSE ""],
              LAMBDA t : t # "")

\* engine.rs:676-725: the tokens the loop over the other names consumes
IsCompanion(other) ==
    \/ other = "forwards"
    \/ \E pre \in {"from(", "to(", "via("} : StageBody(other, pre).some

\* engine.rs:624-797: what the first loop does for the animate: token `name`:
\* the names it consumes and the rule it pushes, if any
AnimateRule(name, class_names, registry) ==
    With([others |-> SelectSeq(class_names, LAMBDA o : o # name),         \* :677
          inline |-> IF Contains(name, " ")                               \* :638
                     THEN Tail(SplitNonEmpty(name, WhitespaceChars)) ELSE << >>,
          parts |-> Split(SubSeq(name, 9, Len(name)), ":")],              \* :628-632
         LAMBDA a :
        With([from |-> StageTokens(a.others, "from(") \o StageTokens(a.inline, "from("),
              to_ |-> StageTokens(a.others, "to(") \o StageTokens(a.inline, "to("),
              via |-> StageTokens(a.others, "via(") \o StageTokens(a.inline, "via("),
              fill |-> \E k \in 1 .. Len(a.others \o a.inline) :
                          (a.others \o a.inline)[k] = "forwards",
              consumed |-> {o \in SeqToSet(a.others) : IsCompanion(o)}],
             LAMBDA st :
            IF st.from = << >> /\ st.to_ = << >> /\ st.via = << >>         \* :739
            THEN [consumed |-> st.consumed, rule |-> compute_css(name, registry)]
            ELSE [consumed |-> st.consumed \cup {name},                   \* :745
                  rule |-> Option_Some(decode_encoded_css(
                      Join(<<"ANIM|animate|" \o Trim(a.parts[1]) \o "|"
                             \o (IF Len(a.parts) >= 2 THEN Trim(a.parts[2])
                                 ELSE "0s")>>
                           \o (IF st.fill THEN <<"ANIM|fill|forwards">> ELSE << >>)
                           \o [k \in 1 .. Len(st.from) |-> "ANIM|from|" \o st.from[k]]
                           \o [k \in 1 .. Len(st.to_) |-> "ANIM|to|" \o st.to_[k]]
                           \o [k \in 1 .. Len(st.via) |-> "ANIM|via|" \o st.via[k]],
                           "\n"),
                      "." \o serialize_identifier(
                                 SplitNonEmpty(name, WhitespaceChars)[1]),
                      << >>))]))

\* engine.rs:621-797: the first loop from the k-th name on, for B = [out, consumed]
RECURSIVE AnimateLoop(_, _, _, _)
AnimateLoop(class_names, registry, k, B) ==
    IF k > Len(class_names) THEN B
    ELSE IF ~StartsWith(class_names[k], "animate:")                       \* :622
            \/ class_names[k] \in B.consumed                              \* :625
    THEN AnimateLoop(class_names, registry, k + 1, B)
    ELSE With(AnimateRule(class_names[k], class_names, registry), LAMBDA r :
             AnimateLoop(class_names, registry, k + 1,
                         [out |-> B.out \o (IF r.rule.some THEN <<r.rule.v>>
                                            ELSE << >>),
                          consumed |-> B.consumed \cup r.consumed]))

\* engine.rs:611-815: the first loop (:621-797) pushes a rule for every animate:
\* token, assembled with the from(..)/to(..)/via(..)/forwards tokens of the
\* batch; the second loop (:799-813) pushes the rule of every token that the
\* first loop did not consume, that is no such companion, and that resolves.
generate_css_for_classes_batch(class_names, registry) ==
    With(AnimateLoop(class_names, registry, 1, [out |-> << >>, consumed |-> {}]),
         LAMBDA B :
        B.out
        \o With(SelectSeq(
                    [k \in 1 .. Len(class_names) |->
                        IF \/ class_names[k] \in B.consumed
                           \/ \E pre \in {"from(", "to(", "via("} :
                                  StartsWith(class_names[k], pre)
                           \/ class_names[k] = "forwards"
                        THEN Option_None
                        ELSE compute_css(class_names[k], registry)],
                    LAMBDA r : r.some),
                LAMBDA rules : [k \in 1 .. Len(rules) |-> rules[k].v]))

(***************************************************************************)
(* Generator: text normalisation (generator.rs:274-817)                    *)
(***************************************************************************)
\* generator.rs:649-672: the line gets a '.' before its escaped symbol group
NeedsDot(rest) ==
    /\ StartsWith(rest, "\\")
    /\ Len(rest) > 3
    /\ CharAt(rest, 2) = "~"
    /\ With(Scan(rest, NameChars, FALSE, 3), LAMBDA idx :
           /\ idx + 1 < Len(rest)
           /\ CharAt(rest, idx) = "\\"
           /\ CharAt(rest, idx + 1) = "(")

FixDotLine(line) ==
    With(TrimStart(line), LAMBDA rest :
        IF rest # "" /\ NeedsDot(rest)
        THEN [changed |-> TRUE,
              text |-> SubSeq(line, 1, Len(line) - Len(rest)) \o "." \o rest \o "\n"]
        ELSE [changed |-> FALSE, text |-> line \o "\n"])

\* generator.rs:645-681
fix_missing_dot_for_escaped_symbol_groups(input) ==
    With([i \in 1 .. Len(StrLines(input)) |-> FixDotLine(StrLines(input)[i])],
         LAMBDA r :
             IF \E i \in DOMAIN r : r[i].changed
             THEN Join([i \in DOMAIN r |-> r[i].text], "")
             ELSE input)

\* s with every run of whitespace collapsed to one space (generator.rs:310-322)
RECURSIVE CollapseWs(_, _)
CollapseWs(s, last_ws) ==
    IF s = "" THEN ""
    ELSE IF IsWhitespace(CharAt(s, 1))
         THEN (IF last_ws THEN "" ELSE " ") \o CollapseWs(SubSeq(s, 2, Len(s)), TRUE)
         ELSE CharAt(s, 1) \o CollapseWs(SubSeq(s, 2, Len(s)), FALSE)

VARIANTS ==
    {".hover\\(", ".focus\\(", ".active\\(", ".focus-within\\(", ".focus-visible\\(",
     ".visited\\(", ".disabled\\(", ".checked\\(", ".group-hover\\(", ".group-focus\\(",
     ".group-active\\(", ".peer-hover\\(", ".peer-focus\\(", ".peer-active\\(",
     ".dark\\("}

\* generator.rs:323-339
IsVariantSelector(trimmed) ==
    /\ ~Contains(trimmed, " ")
    /\ \E v \in VARIANTS :
          \/ trimmed = v
          \/ StartsWith(trimmed, v)
          \/ trimmed = SubSeq(v, 1, Len(v) - 2)

\* the two predicates normalize_generated_css passes to remove_selector_blocks
\* (generator.rs:290 and :309-340)
SelectorPredicate(which, sel) ==
    IF which = "dx-class" THEN StartsWith(sel, ".dx-class-") /\ Len(sel) >= 18
    ELSE With(Trim(CollapseWs(sel, FALSE)), LAMBDA simple :
         With(Find(simple, "\\("), LAMBDA cut :
             IsVariantSelector(IF cut = 0 THEN simple ELSE SubSeq(simple, 1, cut - 1))))

\* generator.rs:777-789 and :194-209, from the '{' at i with the count `depth`:
\* the position after the '}' that brings the count to 0; 0 when none does.
\* The scan moves from brace to brace.
RECURSIVE BlockEnd(_, _, _)
BlockEnd(s, i, depth) ==
    With(Scan(s, {"{", "}"}, TRUE, i), LAMBDA b :
        IF b > Len(s) THEN 0
        ELSE IF CharAt(s, b) = "{" THEN BlockEnd(s, b + 1, depth + 1)
        ELSE IF depth - 1 = 0 THEN b + 1
        ELSE BlockEnd(s, b + 1, depth - 1))

SkipWhitespace(s, i) == Scan(s, WhitespaceChars, FALSE, i)

\* first position at or after i holding '{' or '\n'; Len + 1 when there is none
ScanToBraceOrNewline(s, i) == Scan(s, {"{", "\n"}, TRUE, i)

\* generator.rs:753-764: a '{' reached from k over whitespace only; 0 when none
BraceAfterWhitespace(s, k) ==
    With(SkipWhitespace(s, k), LAMBDA n :
        IF n <= Len(s) /\ CharAt(s, n) = "{" THEN n ELSE 0)

\* generator.rs:746-765: the '{' that opens the block of the selector ending
\* before j; 0 when there is none
SelectorBrace(input, j) ==
    IF j <= Len(input) /\ CharAt(input, j) = "{" THEN j
    ELSE IF j <= Len(input) THEN BraceAfterWhitespace(input, j + 1)
    ELSE 0

\* generator.rs:767-774: the selector text up to an escaped '('
SelectorHead(sel0) ==
    With(Find(sel0, "\\("), LAMBDA group_idx :
        TrimEnd(IF group_idx = 0 THEN sel0 ELSE SubSeq(sel0, 1, group_idx - 1)))

\* generator.rs:776-795: the position after the block opened at brace_pos and
\* the whitespace that follows it
AfterBlock(input, brace_pos) ==
    With(BlockEnd(input, brace_pos, 0), LAMBDA block_end :
        IF block_end = 0 THEN Len(input) + 1 ELSE SkipWhitespace(input, block_end))

\* generator.rs:737-804; the text between two '.' is copied in one piece
RECURSIVE RemoveSelectorBlocksFrom(_, _, _)
RemoveSelectorBlocksFrom(input, which, i) ==
    With(Scan(input, {"."}, TRUE, i), LAMBDA d :
        IF d > Len(input) THEN SubSeq(input, i, Len(input))
        ELSE With(ScanToBraceOrNewline(input, d), LAMBDA j :
             With(SelectorBrace(input, j), LAMBDA brace_pos :
                 SubSeq(input, i, d - 1)
                 \o (IF /\ brace_pos # 0
                        /\ SelectorPredicate(which,
                               SelectorHead(TrimEnd(SubSeq(input, d, j - 1))))
                     THEN RemoveSelectorBlocksFrom(input, which,
                                                   AfterBlock(input, brace_pos))
                     ELSE "." \o RemoveSelectorBlocksFrom(input, which, d + 1)))))

remove_selector_blocks(input, which) == RemoveSelectorBlocksFrom(input, which, 1)

\* generator.rs:809-813
IsOrphanLine(trimmed) == StartsWith(trimmed, ".") /\ ~Contains(trimmed, "{")

\* generator.rs:806-817
RECURSIVE KeepNonOrphanLines(_)
KeepNonOrphanLines(lines) ==
    IF Len(lines) = 0 THEN ""
    ELSE (IF IsOrphanLine(Trim(lines[1])) THEN "" ELSE lines[1] \o "\n")
         \o KeepNonOrphanLines(Tail(lines))

remove_orphan_selectors(input) == KeepNonOrphanLines(StrLines(input))

IsAsciiAlpha(ch) == IsNameChar(ch) /\ ~IsAsciiDigit(ch) /\ ch # "-" /\ ch # "_"

\* generator.rs:703-713: the character ch at i + 1, after a '.', has to be escaped
NeedsEscape(input, i, ch) ==
    IF IsAsciiAlpha(ch) \/ ch = "_" THEN FALSE
    ELSE IF ch = "-"
         THEN i + 2 <= Len(input) /\ IsAsciiDigit(CharAt(input, i + 2))
    ELSE TRUE

\* generator.rs:683-735; st = [out, last_copy] with 0-based last_copy as in the
\* code; the scan moves from '.' to '.'
RECURSIVE ReescapeFrom(_, _, _)
ReescapeFrom(input, from, st) ==
    With(Scan(input, {"."}, TRUE, from), LAMBDA i :
        IF i > Len(input) \/ i + 1 > Len(input) THEN st
        ELSE With(CharAt(input, i + 1), LAMBDA ch :
             IF IsAsciiDigit(ch) \/ ch = "\\" THEN ReescapeFrom(input, i + 1, st)
             ELSE IF NeedsEscape(input, i, ch)
             THEN ReescapeFrom(input, i + 2,
                    [out |-> st.out
                             \o (IF i - 1 > st.last_copy
                                 THEN SubSeq(input, st.last_copy + 1, i) ELSE "")
                             \o "\\" \o ch,
                     last_copy |-> i + 1])
             ELSE ReescapeFrom(input, i + 1, st)))

reescape_leading_invalid_identifiers(input) ==
    With(ReescapeFrom(input, 1, [out |-> "", last_copy |-> 0]), LAMBDA st :
        IF st.last_copy = 0 THEN input
        ELSE st.out \o SubSeq(input, st.last_copy + 1, Len(input)))

\* generator.rs:487-489
PopSpaces(out) == SubSeq(out, 1, LastCharIn(out, {" "}, FALSE, 1, Len(out)))

\* generator.rs:495-500: skip whitespace up to, not over, a line end
SkipInlineWhitespace(s, i) == Scan(s, {" ", "\t", "\r"}, FALSE, i)

\* generator.rs:490-493: one space before '>' unless a separator is there
SpaceBefore(o1) ==
    IF o1 # "" /\ CharAt(o1, Len(o1)) \in {" ", "\n", "\t", ",", "{"}
    THEN o1 ELSE o1 \o " "

\* generator.rs:494-506: '>' and one space after it unless a separator follows at k
ChildCombinator(input, k, o2) ==
    IF k <= Len(input) /\ CharAt(input, k) \notin {" ", "\n", "\t", "{", ",", ">"}
    THEN o2 \o "> " ELSE o2 \o ">"

\* generator.rs:461-518; the scan moves between '{', '}' and '>'
RECURSIVE ChildSpacingFrom(_, _, _, _)
ChildSpacingFrom(input, from, depth, out0) ==
    With(Scan(input, {"{", "}", ">"}, TRUE, from), LAMBDA i :
    With(out0 \o SubSeq(input, from, i - 1), LAMBDA out :
    With(CharAt(input, i), LAMBDA c :
        IF i > Len(input) THEN out
        ELSE IF c = "{" THEN ChildSpacingFrom(input, i + 1, depth + 1, out \o c)
        ELSE IF c = "}"
        THEN ChildSpacingFrom(input, i + 1, IF depth > 0 THEN depth - 1 ELSE 0, out \o c)
        ELSE IF depth # 0 THEN ChildSpacingFrom(input, i + 1, depth, out \o c)
        ELSE IF EndsWith(out, "\\")
        THEN ChildSpacingFrom(input, i + 1, depth, out \o ">")
        ELSE With(SkipInlineWhitespace(input, i + 1), LAMBDA k :
                 ChildSpacingFrom(input, k, depth,
                     ChildCombinator(input, k, SpaceBefore(PopSpaces(out))))))))

normalize_child_combinator_spacing(input) == ChildSpacingFrom(input, 1, 0, "")

\* generator.rs:421-432: the '{' on the line of position j; 0 when the line has none
BraceOnLine(s, j) ==
    With(Scan(s, {"{", "\n"}, TRUE, j), LAMBDA b :
        IF b <= Len(s) /\ CharAt(s, b) = "{" THEN b ELSE 0)

\* generator.rs:440-446: skip whitespace after '}', through the first line end
SkipToLineEnd(s, k) ==
    With(Scan(s, {" ", "\t", "\r"}, FALSE, k), LAMBDA n :
        IF n <= Len(s) /\ CharAt(s, n) = "\n" THEN n + 1 ELSE n)

\* generator.rs:433-439: the '}' of an empty block opened at bpos; 0 when the
\* block is not empty
EmptyBlockClose(input, bpos) ==
    IF bpos = 0 THEN 0
    ELSE With(SkipWhitespace(input, bpos + 1), LAMBDA k :
             IF k <= Len(input) /\ CharAt(input, k) = "}" THEN k ELSE 0)

\* generator.rs:414-459; the text between two '.' is copied in one piece
RECURSIVE RemoveEmptyRulesFrom(_, _)
RemoveEmptyRulesFrom(input, i) ==
    With(Scan(input, {"."}, TRUE, i), LAMBDA d :
        IF d > Len(input) THEN SubSeq(input, i, Len(input))
        ELSE With(EmptyBlockClose(input, BraceOnLine(input, d)), LAMBDA k :
                 SubSeq(input, i, d - 1)
                 \o (IF k # 0
                     THEN RemoveEmptyRulesFrom(input, SkipToLineEnd(input, k + 1))
                     ELSE "." \o RemoveEmptyRulesFrom(input, d + 1))))

remove_empty_rules(input) == RemoveEmptyRulesFrom(input, 1)

\* value_part.split_whitespace()
SplitWhitespace(s) ==
    SelectSeq(Split(Trim(CollapseWs(s, FALSE)), " "), LAMBDA t : t # "")

\* generator.rs:358-369
RECURSIVE FilterAnimationTokens(_, _)
FilterAnimationTokens(tokens, seen_fill) ==
    IF Len(tokens) = 0 THEN << >>
    ELSE IF \/ StartsWith(tokens[1], "from(") \/ StartsWith(tokens[1], "to(")
            \/ StartsWith(tokens[1], "via(")
    THEN FilterAnimationTokens(Tail(tokens), seen_fill)
    ELSE IF tokens[1] = "forwards" /\ seen_fill
    THEN FilterAnimationTokens(Tail(tokens), seen_fill)
    ELSE <<tokens[1]>>
         \o FilterAnimationTokens(Tail(tokens), seen_fill \/ tokens[1] = "forwards")

\* generator.rs:352-357: the value of the declaration, up to its ';'
AnimationValue(v0) ==
    With(Find(v0, ";"), LAMBDA semi :
        IF semi = 0 THEN v0 ELSE SubSeq(v0, 1, semi - 1))

\* generator.rs:350-377
CleanAnimationLine(line) ==
    With(Find(line, "animation:"), LAMBDA idx :
        IF idx = 0 THEN line \o "\n"
        ELSE SubSeq(line, 1, idx - 1) \o "animation: "
             \o Join(FilterAnimationTokens(
                         SplitWhitespace(AnimationValue(
                             Trim(SubSeq(line, idx + 10, Len(line))))),
                         FALSE),
                     " ")
             \o ";" \o "\n")

\* generator.rs:348-381
RECURSIVE CleanAnimationLines(_)
CleanAnimationLines(lines) ==
    IF Len(lines) = 0 THEN ""
    ELSE CleanAnimationLine(lines[1]) \o CleanAnimationLines(Tail(lines))

\* generator.rs:346-383
CleanAnimations(o7) ==
    IF Contains(o7, "animation:") THEN CleanAnimationLines(StrLines(o7)) ELSE o7

\* generator.rs:287-383: the passes of normalize_generated_css, without its cache
NormalizePasses(css) ==
    CleanAnimations(
        remove_empty_rules(
            normalize_child_combinator_spacing(
                reescape_leading_invalid_identifiers(
                    remove_orphan_selectors(
                        remove_selector_blocks(
                            remove_selector_blocks(
                                fix_missing_dot_for_escaped_symbol_groups(css),
                                "dx-class"),
                            "variants"))))))

\* generator.rs:520-541; a run of line ends keeps its first two
RECURSIVE DropLongNewlineRuns(_, _)
DropLongNewlineRuns(s, from) ==
    With(FindFrom(s, "\n\n\n", from), LAMBDA r :
        IF r = 0 THEN SubSeq(s, from, Len(s))
        ELSE SubSeq(s, from, r + 1)
             \o DropLongNewlineRuns(s, Scan(s, {"\n"}, FALSE, r)))

TrimStartNewlines(s) == SubSeq(s, Scan(s, {"\n"}, FALSE, 1), Len(s))

condense_blank_lines(input) ==
    TrimEndMatches(TrimStartNewlines(DropLongNewlineRuns(input, 1)), "\n") \o "\n"

(***************************************************************************)
(* Generator: patching and regeneration (generator.rs:121-272, 943-1191)   *)
(*                                                                         *)
(* A generator state is a record of the statics and the output file:       *)
(*   out_file             [exists, content]                                *)
(*   LAST_STATE           hash of the class ids last recorded, 0 at start  *)
(*   since_gen            now - LAST_GENERATION_TIME in ms, capped at      *)
(*                        DEBOUNCE_MS                                      *)
(*   PREV_CLASS_IDS       the id set last recorded                         *)
(*   NORMALIZED_CSS_CACHE id -> normalised rule text                       *)
(*   NORMALIZE_CACHE      rule text -> normalised rule text                *)
(*   PATH_CONTENT_CACHE   content hash stored for the output path          *)
(* OUTPUT_CACHE, LAST_IDS_HASH and LAST_IDS_COUNT are only ever written    *)
(* (generator.rs:1002, 1003, 1106, 1118, 1173) and carry no state here.    *)
(* Hashes are collision free: a content hash is the text itself, the hash  *)
(* of an id set is a positive number that identifies the set.  The LRU     *)
(* caches hold 4096 and 8192 entries and evict nothing at these sizes.     *)
(***************************************************************************)
\* generator.rs:961
DEBOUNCE_MS == 2

\* generator.rs:1060
BATCH_SIZE == 64

\* generator.rs:147
PATCH_LIMIT == 32

\* generator.rs:385
NORMALIZE_CACHE_MAX_LEN == 16384

\* the outcomes of the file operations of one call
IoOk == [read_ok |-> TRUE, write_ok |-> TRUE, open_ok |-> TRUE]

MinOf(S) == CHOOSE m \in S : \A x \in S : m <= x

\* sorted.sort_unstable() (generator.rs:999-1000)
RECURSIVE SortedSeq(_)
SortedSeq(S) ==
    IF S = {} THEN << >> ELSE <<MinOf(S)>> \o SortedSeq(S \ {MinOf(S)})

RECURSIVE SumPow2(_)
SumPow2(S) ==
    IF S = {} THEN 0 ELSE 2 ^ MinOf(S) + SumPow2(S \ {MinOf(S)})

\* generator.rs:966-973: never 0, different for different sets
direct_hash_of(class_ids) == 1 + SumPow2(class_ids)

\* fast_hash of a text; HashZero is the literal 0 stored at generator.rs:1110, 1122
fast_hash(text) == [zero |-> FALSE, text |-> text]

HashZero == [zero |-> TRUE, text |-> ""]

NoFile == [exists |-> FALSE, content |-> ""]

FileWith(text) == [exists |-> TRUE, content |-> text]

EmptyFn == [x \in {} |-> ""]

\* generator.rs:384-389: the cache after css was normalised to out
CacheNormalized(cache, css, out) ==
    IF Len(out) <= NORMALIZE_CACHE_MAX_LEN
    THEN [k \in DOMAIN cache \cup {css} |-> IF k = css THEN out ELSE cache[k]]
    ELSE cache

\* generator.rs:274-391: [text, cache] after normalising css with the cache
normalize_generated_css(css, cache) ==
    IF Len(css) < 3 THEN [text |-> css, cache |-> cache]
    ELSE IF css \in DOMAIN cache THEN [text |-> cache[css], cache |-> cache]
    ELSE With(NormalizePasses(css), LAMBDA out :
             [text |-> out, cache |-> CacheNormalized(cache, css, out)])

\* .map(|r| normalize_generated_css(r)) over a sequence of rules; acc is
\* [texts, cache]
RECURSIVE NormalizeInto(_, _)
NormalizeInto(rules, acc) ==
    IF Len(rules) = 0 THEN acc
    ELSE With(normalize_generated_css(rules[1], acc.cache), LAMBDA h :
             NormalizeInto(Tail(rules),
                           [texts |-> Append(acc.texts, h.text), cache |-> h.cache]))

NormalizeAll(rules, cache) == NormalizeInto(rules, [texts |-> << >>, cache |-> cache])

NamesOf(ids) == [i \in 1 .. Len(ids) |-> interner_get(ids[i])]

\* generator.rs:174-187: the first '{' after the selector unless a blank line
\* comes first; 0 when there is none
FindRuleBrace(src, brace_search) ==
    With(Scan(src, {"{"}, TRUE, brace_search), LAMBDA b :
        IF b > Len(src) THEN 0
        ELSE With(FindFrom(src, "\n\n", brace_search - 1), LAMBDA blank :
                 IF blank # 0 /\ blank + 1 < b THEN 0 ELSE b))

\* generator.rs:166-172: the match at start stands at the beginning of a rule
AtRuleStart(src, start) ==
    \/ start = 1
    \/ IsWhitespace(CharAt(src, start - 1))
    \/ CharAt(src, start - 1) = "}"

\* generator.rs:189-224: src without the block opened at open_pos and the
\* whitespace after it; src itself when the block is never closed
CutRule(src, start, open_pos) ==
    With(BlockEnd(src, open_pos, 0), LAMBDA end_pos :
        IF end_pos = 0 THEN src
        ELSE SubSeq(src, 1, start - 1)
             \o SubSeq(src, SkipWhitespace(src, end_pos), Len(src)))

\* generator.rs:158-231: [src, did_remove].  `bytes` (:160) is read as the
\* current text of src.
RECURSIVE RemoveRuleBlockFrom(_, _, _, _)
RemoveRuleBlockFrom(src, needle, pos, did_remove) ==
    With(FindFrom(src, needle, pos), LAMBDA start :
        IF start = 0 THEN [src |-> src, did_remove |-> did_remove]
        ELSE IF ~AtRuleStart(src, start)
        THEN RemoveRuleBlockFrom(src, needle, start + Len(needle), did_remove)
        ELSE With(FindRuleBrace(src, start + Len(needle)), LAMBDA open_pos :
             IF open_pos = 0 \/ BlockEnd(src, open_pos, 0) = 0
             THEN RemoveRuleBlockFrom(src, needle, start + Len(needle), did_remove)
             ELSE RemoveRuleBlockFrom(CutRule(src, start, open_pos), needle, 1, TRUE)))

remove_rule_block(src, class_name) ==
    RemoveRuleBlockFrom(src, "." \o class_name, 1, FALSE)

\* generator.rs:234-239
RECURSIVE RemoveOldRules(_, _, _)
RemoveOldRules(content, removed_ids, changed) ==
    IF Len(removed_ids) = 0 THEN [content |-> content, changed |-> changed]
    ELSE With(remove_rule_block(content, interner_get(removed_ids[1])), LAMBDA r :
             RemoveOldRules(r.src, Tail(removed_ids), changed \/ r.did_remove))

\* generator.rs:246-256
RECURSIVE AppendNewRules(_, _, _)
AppendNewRules(content, norms, changed) ==
    IF Len(norms) = 0 THEN [content |-> content, changed |-> changed]
    ELSE IF Trim(norms[1]) = "" THEN AppendNewRules(content, Tail(norms), changed)
    ELSE AppendNewRules(
             (IF content # "" /\ ~EndsWith(content, "\n\n")
              THEN content \o "\n\n" ELSE content) \o norms[1],
             Tail(norms), TRUE)

\* generator.rs:259-271: the return of patch_css_file once content is computed
PatchWrite(file, appended, cache, io) ==
    IF ~appended.changed THEN [ok |-> FALSE, out_file |-> file, cache |-> cache]
    ELSE IF Len(appended.content) # Len(file.content)
    THEN IF io.open_ok /\ io.write_ok
         THEN [ok |-> TRUE, out_file |-> FileWith(appended.content), cache |-> cache]
         ELSE [ok |-> FALSE,
               out_file |-> IF io.open_ok THEN FileWith("") ELSE file,
               cache |-> cache]
    ELSE [ok |-> TRUE, out_file |-> file, cache |-> cache]

\* generator.rs:151-271: removed_ids are cut out of the text, the rules of
\* added_ids are appended
PatchContent(file, added_ids, removed_ids, registry, cache, io) ==
    With(NormalizeAll(generate_css_for_classes_batch(NamesOf(added_ids), registry),
                      cache),
         LAMBDA norm :
    With(RemoveOldRules(file.content, removed_ids, FALSE), LAMBDA removed :
        PatchWrite(file,
                   AppendNewRules(removed.content, norm.texts, removed.changed),
                   norm.cache, io)))

\* generator.rs:121-272: [ok, out_file, cache] where cache is NORMALIZE_CACHE.
\* The two id vectors are taken in ascending id order, one of the orders the
\* HashSet iteration at :130-139 can produce.
patch_css_file(file, old_ids, new_ids, registry, cache, io) ==
    IF ~file.exists THEN [ok |-> FALSE, out_file |-> file, cache |-> cache]
    ELSE IF new_ids = old_ids THEN [ok |-> TRUE, out_file |-> file, cache |-> cache]
    ELSE IF Cardinality(new_ids \ old_ids) + Cardinality(old_ids \ new_ids)
               > PATCH_LIMIT
    THEN [ok |-> FALSE, out_file |-> file, cache |-> cache]
    ELSE IF ~io.read_ok THEN [ok |-> FALSE, out_file |-> file, cache |-> cache]
    ELSE PatchContent(file, SortedSeq(new_ids \ old_ids), SortedSeq(old_ids \ new_ids),
                      registry, cache, io)

\* missing_indices.chunks(BATCH_SIZE) (generator.rs:1061)
RECURSIVE Chunks(_, _)
Chunks(seq, size) ==
    IF Len(seq) = 0 THEN << >>
    ELSE IF Len(seq) <= size THEN <<seq>>
    ELSE <<SubSeq(seq, 1, size)>> \o Chunks(SubSeq(seq, size + 1, Len(seq)), size)

\* generator.rs:1076-1083: chunk.iter().zip(new_normalized.iter()) pairs the
\* k-th missing id with the k-th rule the batch returned
RECURSIVE ZipIntoCache(_, _, _)
ZipIntoCache(chunk, new_normalized, css_cache) ==
    IF Len(chunk) = 0 \/ Len(new_normalized) = 0 THEN css_cache
    ELSE ZipIntoCache(Tail(chunk), Tail(new_normalized),
             IF Trim(new_normalized[1]) # ""
             THEN [k \in DOMAIN css_cache \cup {chunk[1]} |->
                      IF k = chunk[1] THEN new_normalized[1] ELSE css_cache[k]]
             ELSE css_cache)

\* generator.rs:1061-1085: [css_cache, cache] after all chunks
RECURSIVE FillMissing(_, _, _, _)
FillMissing(chunks, registry, css_cache, cache) ==
    IF Len(chunks) = 0 THEN [css_cache |-> css_cache, cache |-> cache]
    ELSE With(NormalizeAll(generate_css_for_classes_batch(NamesOf(chunks[1]), registry),
                           cache),
              LAMBDA norm :
                  FillMissing(Tail(chunks), registry,
                              ZipIntoCache(chunks[1], norm.texts, css_cache),
                              norm.cache))

\* the text written by utils::write_buffered(path, b"") and its failure
WriteEmpty(file, io) ==
    IF io.open_ok THEN FileWith("") ELSE file

\* generator.rs:1098-1123: no rule at all: the file is emptied unless it exists
\* and is empty already; a failed write_buffered panics through .expect
\* (:1103 and :1115), which unwinds out of generate_css_ids
WriteNoContent(base, io) ==
    IF (base.out_file.exists /\ Len(base.out_file.content) > 0) \/ ~base.out_file.exists
    THEN IF io.open_ok
         THEN [base EXCEPT !.out_file = FileWith(""),
                           !.PATH_CONTENT_CACHE = Option_Some(HashZero)]
         ELSE [base EXCEPT !.panicked = TRUE]
    ELSE base

\* generator.rs:1126-1190: the aggregate is written unless PATH_CONTENT_CACHE
\* holds its hash
WriteAggregate(base, aggregate, io) ==
    IF base.PATH_CONTENT_CACHE.some /\ base.PATH_CONTENT_CACHE.v = fast_hash(aggregate)
    THEN base
    ELSE IF io.open_ok /\ io.write_ok
    THEN [base EXCEPT !.out_file = FileWith(aggregate),
                      !.PATH_CONTENT_CACHE = Option_Some(fast_hash(aggregate))]
    ELSE [base EXCEPT !.out_file = WriteEmpty(base.out_file, io)]

\* generator.rs:1087-1099: the cached rules of the ids, in id order
Aggregate(sorted, css_cache) ==
    With(SelectSeq(sorted, LAMBDA id : id \in DOMAIN css_cache), LAMBDA blocks :
        [has_content |-> Len(blocks) > 0,
         text |-> condense_blank_lines(
                      Join([i \in 1 .. Len(blocks) |-> css_cache[blocks[i]]], "\n\n"))])

\* generator.rs:1125-1131 and :1182-1190: the snapshot, the identity hash and
\* the generation time are stored
StoreSnapshot(G, class_ids) ==
    [G EXCEPT !.PREV_CLASS_IDS = class_ids,
              !.LAST_STATE = direct_hash_of(class_ids),
              !.since_gen = 0]

\* generator.rs:998-1190 without the stores of last_state (:1129, :1189)
FullRegeneration_Mut_NoLastState(G, class_ids, registry, io) ==
    With(SortedSeq(class_ids), LAMBDA sorted :
    With(FillMissing(
             Chunks(SelectSeq(sorted, LAMBDA id : id \notin DOMAIN G.NORMALIZED_CSS_CACHE),
                    BATCH_SIZE),
             registry, G.NORMALIZED_CSS_CACHE, G.NORMALIZE_CACHE),
         LAMBDA filled :
    With([G EXCEPT !.NORMALIZED_CSS_CACHE = filled.css_cache,
                   !.NORMALIZE_CACHE = filled.cache],
         LAMBDA base :
    With(Aggregate(sorted, filled.css_cache), LAMBDA agg :
    With(IF agg.has_content THEN WriteAggregate(base, agg.text, io)
         ELSE WriteNoContent(base, io),
         LAMBDA written :
        IF written.panicked THEN written
        ELSE [written EXCEPT !.PREV_CLASS_IDS = class_ids, !.since_gen = 0])))))

\* generator.rs:998-1190, the development path: the generator state after a
\* full regeneration.  The stores at the end are reached on every return but
\* the panic of the no-content branch.
FullRegeneration(G, class_ids, registry, io) ==
    With(SortedSeq(class_ids), LAMBDA sorted :
    With(FillMissing(
             Chunks(SelectSeq(sorted, LAMBDA id : id \notin DOMAIN G.NORMALIZED_CSS_CACHE),
                    BATCH_SIZE),
             registry, G.NORMALIZED_CSS_CACHE, G.NORMALIZE_CACHE),
         LAMBDA filled :
    With([G EXCEPT !.NORMALIZED_CSS_CACHE = filled.css_cache,
                   !.NORMALIZE_CACHE = filled.cache],
         LAMBDA base :
    With(Aggregate(sorted, filled.css_cache), LAMBDA agg :
    With(IF agg.has_content THEN WriteAggregate(base, agg.text, io)
         ELSE WriteNoContent(base, io),
         LAMBDA written :
        IF written.panicked THEN written
        ELSE StoreSnapshot(written, class_ids))))))

\* generator.rs:984-996: [ok, G] after the micro-patch; ok is false when the
\* patch is not tried or fails
TryPatch(G, class_ids, registry, force_format, io) ==
    IF /\ ~force_format /\ G.out_file.exists
       /\ direct_hash_of(class_ids) # 0 /\ G.LAST_STATE # 0
    THEN With(patch_css_file(G.out_file, G.PREV_CLASS_IDS, class_ids, registry,
                             G.NORMALIZE_CACHE, io),
              LAMBDA patch :
                  [ok |-> patch.ok,
                   G |-> [G EXCEPT !.out_file = patch.out_file,
                                   !.NORMALIZE_CACHE = patch.cache]])
    ELSE [ok |-> FALSE, G |-> G]

\* generator.rs:987-993
PatchReturn(G, class_ids) ==
    [G EXCEPT !.since_gen = 0,
              !.LAST_STATE = direct_hash_of(class_ids),
              !.PREV_CLASS_IDS = class_ids]

\* generator.rs:943-1191: [G, path] where path names the return the call took;
\* "panic" when the call does not return but unwinds
generate_css_ids(G, class_ids, registry, force_format, io) ==
    IF ~force_format /\ G.since_gen < DEBOUNCE_MS
    THEN [G |-> G, path |-> "debounce"]
    ELSE IF /\ ~force_format
            /\ G.LAST_STATE = direct_hash_of(class_ids)
            /\ G.LAST_STATE # 0
    THEN [G |-> [G EXCEPT !.since_gen = 0], path |-> "identity"]
    ELSE With(TryPatch(G, class_ids, registry, force_format, io), LAMBDA patched :
             IF patched.ok
             THEN [G |-> PatchReturn(patched.G, class_ids), path |-> "patch"]
             ELSE With(FullRegeneration(patched.G, class_ids, registry, io),
                       LAMBDA full :
                           [G |-> [full EXCEPT !.panicked = FALSE],
                            path |-> IF full.panicked THEN "panic" ELSE "full"]))

\* the statics and the output file before the first call
GeneratorInit ==
    [out_file |-> NoFile, LAST_STATE |-> 0, since_gen |-> DEBOUNCE_MS,
     PREV_CLASS_IDS |-> {}, NORMALIZED_CSS_CACHE |-> EmptyFn,
     NORMALIZE_CACHE |-> EmptyFn, PATH_CONTENT_CACHE |-> Option_None,
     panicked |-> FALSE]

\* the current generator state as a record
GenState ==
    [out_file |-> out_file, LAST_STATE |-> LAST_STATE, since_gen |-> since_gen,
     PREV_CLASS_IDS |-> PREV_CLASS_IDS, NORMALIZED_CSS_CACHE |-> NORMALIZED_CSS_CACHE,
     NORMALIZE_CACHE |-> NORMALIZE_CACHE, PATH_CONTENT_CACHE |-> PATH_CONTENT_CACHE,
     panicked |-> FALSE]

SetGenState(G) ==
    /\ out_file' = G.out_file
    /\ LAST_STATE' = G.LAST_STATE
    /\ since_gen' = G.since_gen
    /\ PREV_CLASS_IDS' = G.PREV_CLASS_IDS
    /\ NORMALIZED_CSS_CACHE' = G.NORMALIZED_CSS_CACHE
    /\ NORMALIZE_CACHE' = G.NORMALIZE_CACHE
    /\ PATH_CONTENT_CACHE' = G.PATH_CONTENT_CACHE

\* last_call: the return the last call took, its arguments, whether the
\* file now holds the text of a full regeneration, and the id set of the last
\* call that completed a micro-patch or a full regeneration
NoCall == [path |-> "none", class_ids |-> {}, force_format |-> FALSE,
           from_full |-> FALSE, completed |-> [some |-> FALSE, ids |-> {}]]

\* the generator before its first call, for behaviours that never call it
GenIdle ==
    /\ out_file = NoFile
    /\ LAST_STATE = 0
    /\ since_gen = DEBOUNCE_MS
    /\ PREV_CLASS_IDS = {}
    /\ NORMALIZED_CSS_CACHE = EmptyFn
    /\ NORMALIZE_CACHE = EmptyFn
    /\ PATH_CONTENT_CACHE = Option_None
    /\ last_call = NoCall
    /\ calls_left = 0

\* the control loop and the background thread, for behaviours without them
WatchIdle ==
    /\ pending_changes = FALSE
    /\ bg_last_hash = 0
    /\ since_poll = 0
    /\ batch_paths = {}
    /\ events_left = 0

\* main.rs:299-304: the mutexes around the maps and the interner
Mutexes == {"file_classnames_ids", "classname_counts_ids", "global_classnames_ids",
            "interner"}

Threads == {"loop", "bg"}

\* no visitor constructed, no attribute to visit
NoAttr == [raw |-> "", out |-> << >>]

VisIdle ==
    /\ vis_class_names = {}
    /\ vis_components = EmptyFn
    /\ vis_last = NoAttr
    /\ vis_left = 0

\* an engine call that has not happened
NoEngCall == [op |-> "none", token |-> "", css |-> Option_None,
              batch |-> << >>, rules |-> << >>]

EngIdle ==
    /\ eng_last = NoEngCall
    /\ eng_seen = EmptyFn
    /\ eng_left = 0

PureIdle == VisIdle /\ EngIdle

\* both threads between two rounds, no mutex locked
LockIdle ==
    /\ lk_pc = [t \in Threads |-> "idle"]
    /\ lk_held = [t \in Threads |-> 0]
    /\ lk_owner = [m \in Mutexes |-> "none"]

\* a registry call that has not happened
NoRegCall == [op |-> "none", content |-> << >>, name |-> ""]

\* the registry and the interner as constructed (composites.rs:22-23,
\* interner.rs:13-19), for behaviours that never call them
LibIdle ==
    /\ reg_map = EmptyFn
    /\ reg_data = EmptyFn
    /\ seahash = EmptyFn
    /\ reg_calls = {}
    /\ reg_last = NoRegCall
    /\ reg_left = 0
    /\ int_map = EmptyFn
    /\ int_strings = << >>
    /\ int_escaped = << >>
    /\ int_calls = {}
    /\ LockIdle
    /\ PureIdle

(***************************************************************************)
(* Data Manager                                                            *)
(***************************************************************************)
NoUpdate ==
    [path |-> 0, old_ids |-> {}, new_ids |-> {}, a_f |-> 0, r_f |-> 0,
     added_global |-> 0, removed_global |-> 0,
     added_global_vec |-> {}, removed_global_vec |-> {},
     global_before |-> {}, dec_at_zero |-> FALSE]

\* file_ids.get(path).cloned().unwrap_or_default()
FileSet(f_ids, path) == IF path \in DOMAIN f_ids THEN f_ids[path] ELSE {}

\* `*c -= 1` on a u32
DecU32(c) == IF c = 0 THEN U32_MAX ELSE c - 1

\* data_manager.rs:72-81.  The loop visits every id of a set once and each
\* iteration touches only its own map key and set element, so the result does not
\* depend on the HashSet iteration order.
RemoveLoop_Mut_AtOne(removed_in_file, counts, g_ids) ==
    LET hit == removed_in_file \cap DOMAIN counts
        counts1 == [id \in DOMAIN counts |->
                       IF id \in hit THEN DecU32(counts[id]) ELSE counts[id]]
        vec == {id \in hit : counts1[id] <= 1}
    IN  [counts |-> counts1, global |-> g_ids \ vec, vec |-> vec,
         dec_at_zero |-> \E id \in hit : counts[id] = 0]

RemoveLoop_Mut_NoDecrement(removed_in_file, counts, g_ids) ==
    LET hit == removed_in_file \cap DOMAIN counts
        vec == {id \in hit : counts[id] = 1}
    IN  [counts |-> counts, global |-> g_ids \ vec, vec |-> vec,
         dec_at_zero |-> \E id \in hit : counts[id] = 0]

RemoveLoop_Mut_AlwaysReport(removed_in_file, counts, g_ids) ==
    LET hit == removed_in_file \cap DOMAIN counts
        counts1 == [id \in DOMAIN counts |->
                       IF id \in hit THEN DecU32(counts[id]) ELSE counts[id]]
        gone == {id \in hit : counts1[id] = 0}
    IN  [counts |-> counts1, global |-> g_ids \ gone, vec |-> hit,
         dec_at_zero |-> \E id \in hit : counts[id] = 0]

RemoveLoop(removed_in_file, counts, g_ids) ==
    LET hit == removed_in_file \cap DOMAIN counts            \* :73 get_mut(id) is Some
        counts1 == [id \in DOMAIN counts |->                  \* :74 *c -= 1
                       IF id \in hit THEN DecU32(counts[id]) ELSE counts[id]]
        vec == {id \in hit : counts1[id] = 0}                 \* :75-78
    IN  [counts |-> counts1, global |-> g_ids \ vec, vec |-> vec,
         dec_at_zero |-> \E id \in hit : counts[id] = 0]

\* data_manager.rs:82-90
AddLoop(added_in_file, counts, g_ids) ==
    LET cnt(id) == IF id \in DOMAIN counts THEN counts[id] ELSE 0   \* :83 or_insert(0)
        vec == {id \in added_in_file : cnt(id) = 0}                 \* :84-87
        counts2 == [id \in DOMAIN counts \cup added_in_file |->     \* :89 *count += 1
                       IF id \in added_in_file THEN cnt(id) + 1 ELSE counts[id]]
    IN  [counts |-> counts2, global |-> g_ids \cup vec, vec |-> vec]

\* data_manager.rs:56-100
update_class_maps_ids(path, new_ids, f_ids, counts, g_ids) ==
    LET old_ids == FileSet(f_ids, path)                       \* :63
        added_in_file == new_ids \ old_ids                    \* :64
        removed_in_file == old_ids \ new_ids                  \* :65
        rem == RemoveLoop(removed_in_file, counts, g_ids)
        add == AddLoop(added_in_file, rem.counts, rem.global)
    IN  [file_ids |-> [p \in DOMAIN f_ids \cup {path} |->      \* :91
                          IF p = path THEN new_ids ELSE f_ids[p]],
         id_counts |-> add.counts,
         global_ids |-> add.global,
         ret |-> [path |-> path, old_ids |-> old_ids, new_ids |-> new_ids,
                  a_f |-> Cardinality(added_in_file),
                  r_f |-> Cardinality(removed_in_file),
                  added_global |-> Cardinality(add.vec),
                  removed_global |-> Cardinality(rem.vec),
                  added_global_vec |-> add.vec,
                  removed_global_vec |-> rem.vec,
                  global_before |-> g_ids,
                  dec_at_zero |-> rem.dec_at_zero]]

\* main.rs:168-177: one iteration of the seeding loop over the durable cache
SeedEntry(st, path, classnames) ==
    [file_ids |-> [p \in DOMAIN st.file_ids \cup {path} |->
                      IF p = path THEN classnames ELSE st.file_ids[p]],
     id_counts |-> [id \in DOMAIN st.id_counts \cup classnames |->
                      (IF id \in DOMAIN st.id_counts THEN st.id_counts[id] ELSE 0)
                      + (IF id \in classnames THEN 1 ELSE 0)],
     global_ids |-> st.global_ids \cup classnames]

EmptyMaps == [file_ids |-> << >>, id_counts |-> << >>, global_ids |-> {}]

\* main.rs:163-177: the maps after the loop over cache.iter(); the cache is a
\* path-keyed store (cache.rs:127-135), so every path is visited once.
RECURSIVE SeedFromCache(_, _)
SeedFromCache(cache, st) ==
    IF DOMAIN cache = {} THEN st
    ELSE LET path == CHOOSE p \in DOMAIN cache : TRUE
             rest == [p \in DOMAIN cache \ {path} |-> cache[p]]
         IN  SeedFromCache(rest, SeedEntry(st, path, cache[path]))

\* every content the durable cache can hold at startup (the empty cache included)
DurableCaches == UNION {[D -> SUBSET Ids] : D \in SUBSET Files}

DMInit ==
    \E cache \in DurableCaches :
        LET st == SeedFromCache(cache, EmptyMaps)
        IN  /\ file_ids = st.file_ids
            /\ id_counts = st.id_counts
            /\ global_ids = st.global_ids
            /\ last_update = NoUpdate
            /\ removal_reports = [id \in Ids |-> 0]
            /\ GenIdle
            /\ WatchIdle
            /\ LibIdle

\* bookkeeping of the returned removed/added vectors (history, not program state)
CountReports(reports, ret) ==
    [id \in Ids |->
        IF id \in ret.added_global_vec THEN 0
        ELSE IF id \in ret.removed_global_vec THEN reports[id] + 1
        ELSE reports[id]]

\* one call update_class_maps_ids(path, new_ids, ..): a file change (new_ids is the
\* parsed set) or a file removal (new_ids = {}), watcher.rs:58, :128, :167
UpdateClassMaps ==
    \E path \in Files, new_ids \in SUBSET Ids :
        LET r == update_class_maps_ids(path, new_ids, file_ids, id_counts, global_ids)
        IN  /\ file_ids' = r.file_ids
            /\ id_counts' = r.id_counts
            /\ global_ids' = r.global_ids
            /\ last_update' = r.ret
            /\ removal_reports' = CountReports(removal_reports, r.ret)
            /\ UNCHANGED <<genVars, watchVars, libVars>>

DMNext == UpdateClassMaps

SpecDM == DMInit /\ [][DMNext]_vars

\* number of files whose stored class set contains id
Users(id) == Cardinality({p \in DOMAIN file_ids : id \in file_ids[p]})

RefCount(id) == IF id \in DOMAIN id_counts THEN id_counts[id] ELSE 0

(***************************************************************************)
(* Claims about the Data Manager                                           *)
(***************************************************************************)

\* C1: after any sequence of update_class_maps_ids calls, from the empty or the
\* cache-seeded state, an id is in the global active set iff its reference count
\* is greater than 0.
C1_GlobalIffCounted ==
    \A id \in Ids : (id \in global_ids) <=> (RefCount(id) > 0)

\* an update took an id out of the global set (its entry stays, at count 0) while
\* another id is still active
C1_Witness ==
    /\ last_update.path \in Files
    /\ last_update.removed_global > 0
    /\ \E id \in DOMAIN id_counts : id_counts[id] = 0 /\ id \notin global_ids
    /\ global_ids # {}

\* C2: when a file drops class c while another file still stores c, c stays in the
\* global set and no global removal of c is reported; when the last file storing c
\* drops it, c leaves the global set and the removal is reported, once per
\* activation of c.
C2_SharedClassRemovedOnce ==
    /\ \A c \in Ids : removal_reports[c] <= 1
    /\ \A c \in Ids : c \in global_ids => removal_reports[c] = 0
    /\ last_update.path \in Files =>
          \A c \in last_update.old_ids \ last_update.new_ids :
              IF \E f2 \in DOMAIN file_ids : f2 # last_update.path /\ c \in file_ids[f2]
              THEN c \in global_ids /\ c \notin last_update.removed_global_vec
              ELSE c \notin global_ids /\ c \in last_update.removed_global_vec
                   /\ removal_reports[c] = 1

\* the second of two files that shared c has just dropped it
C2_Witness ==
    /\ last_update.path \in Files
    /\ DOMAIN file_ids = Files
    /\ \E c \in last_update.old_ids \ last_update.new_ids :
          /\ \A f \in Files : c \notin file_ids[f]
          /\ c \in last_update.removed_global_vec
          /\ c \in last_update.global_before
          /\ removal_reports[c] = 1

\* C3: the reference count of every id equals the number of files whose stored
\* set contains it, and no decrement was applied to a count of 0.
C3_CountIsNumberOfFiles ==
    /\ \A id \in Ids : RefCount(id) = Users(id)
    /\ ~last_update.dec_at_zero

\* an id used by every file, after an update that removed ids from a file
C3_Witness ==
    /\ last_update.path \in Files
    /\ last_update.r_f > 0
    /\ \E id \in Ids : RefCount(id) = NumFiles /\ Users(id) = NumFiles

(***************************************************************************)
(* Generator driven directly: any sequence of generate_css_ids calls       *)
(***************************************************************************)
MaxCalls == 2

\* G with the Generator caches emptied
WithoutCaches(G) ==
    [G EXCEPT !.NORMALIZED_CSS_CACHE = EmptyFn, !.NORMALIZE_CACHE = EmptyFn,
              !.PATH_CONTENT_CACHE = Option_None]

\* the file holds the text of a full regeneration after the call that returned r
FromFull(r) ==
    IF r.path = "full"
    THEN /\ r.G.out_file.exists
         /\ r.G.PATH_CONTENT_CACHE = Option_Some(fast_hash(r.G.out_file.content))
    ELSE IF r.path = "patch" THEN FALSE
    ELSE last_call.from_full

\* the state after a call that returned r, and the record of the call
Returned(r, class_ids, force_format) ==
    /\ SetGenState(r.G)
    /\ last_call' = [path |-> r.path, class_ids |-> class_ids,
                     force_format |-> force_format, from_full |-> FromFull(r),
                     completed |-> IF r.path \in {"patch", "full"}
                                   THEN [some |-> TRUE, ids |-> class_ids]
                                   ELSE last_call.completed]

\* one generate_css_ids call on the current state
CallGenerate(class_ids, force_format, io) ==
    Returned(generate_css_ids(GenState, class_ids, NoRegistry, force_format, io),
             class_ids, force_format)

GenInit ==
    /\ file_ids = << >> /\ id_counts = << >> /\ global_ids = {}
    /\ last_update = NoUpdate
    /\ removal_reports = [id \in Ids |-> 0]
    /\ out_file = NoFile
    /\ LAST_STATE = 0
    /\ since_gen = DEBOUNCE_MS
    /\ PREV_CLASS_IDS = {}
    /\ NORMALIZED_CSS_CACHE = EmptyFn
    /\ NORMALIZE_CACHE = EmptyFn
    /\ PATH_CONTENT_CACHE = Option_None
    /\ last_call = NoCall
    /\ calls_left = MaxCalls
    /\ WatchIdle
    /\ LibIdle

Generate ==
    /\ calls_left > 0
    /\ \E class_ids \in SUBSET ClassIds, force_format \in BOOLEAN :
           CallGenerate(class_ids, force_format, IoOk)
    /\ calls_left' = calls_left - 1
    /\ UNCHANGED <<dmVars, watchVars, libVars>>

\* a millisecond passes
Tick ==
    /\ since_gen < DEBOUNCE_MS
    /\ since_gen' = since_gen + 1
    /\ UNCHANGED <<out_file, LAST_STATE, PREV_CLASS_IDS, NORMALIZED_CSS_CACHE,
                   NORMALIZE_CACHE, PATH_CONTENT_CACHE, last_call, calls_left>>
    /\ UNCHANGED <<dmVars, watchVars, libVars>>

GenNext == Generate \/ Tick

SpecGen == GenInit /\ [][GenNext]_vars

(***************************************************************************)
(* Generator with a failing file system: every call meets one outcome of   *)
(* reading, opening and writing the output file                            *)
(***************************************************************************)
\* what fs::read_to_string (generator.rs:151), OpenOptions::open (utils.rs:43,
\* generator.rs:1161-1165) and write_all/flush (utils.rs:49-50,
\* generator.rs:1168) can return: all succeed, or one of them fails
IoOutcomes ==
    {IoOk, [IoOk EXCEPT !.read_ok = FALSE], [IoOk EXCEPT !.open_ok = FALSE],
     [IoOk EXCEPT !.write_ok = FALSE]}

\* the ids the calls draw their sets from: btn, zz (no rule) and box
IoClassIds == {0, 1, 4}

\* one generate_css_ids call; a panic ends the process, so no call follows it
GenerateIo ==
    /\ calls_left > 0
    /\ \E class_ids \in SUBSET IoClassIds, force_format \in BOOLEAN, io \in IoOutcomes :
           CallGenerate(class_ids, force_format, io)
    /\ calls_left' = IF last_call'.path = "panic" THEN 0 ELSE calls_left - 1
    /\ UNCHANGED <<dmVars, watchVars, libVars>>

IoNext == GenerateIo \/ Tick

SpecIo == GenInit /\ [][IoNext]_vars

\* the top-level rule blocks of a stylesheet, in file order: each runs from the
\* first character after the preceding block to the '}' that closes it
RECURSIVE TopBlocks(_, _)
TopBlocks(text, from) ==
    With(SkipWhitespace(text, from), LAMBDA start :
        IF start > Len(text) THEN << >>
        ELSE With(BlockEnd(text, start, 0), LAMBDA end :
                 IF end = 0 THEN <<SubSeq(text, start, Len(text))>>
                 ELSE <<SubSeq(text, start, end - 1)>> \o TopBlocks(text, end)))

RuleBlocks(text) == TopBlocks(text, 1)


RuleBlockSet(text) == SeqToSet(RuleBlocks(text))

(***************************************************************************)
(* Claims about generate_css_ids                                           *)
(***************************************************************************)

\* the file the call recorded in last_call' leaves when it is made from the current
\* state with force_format set
FileIfForced ==
    generate_css_ids(GenState, last_call'.class_ids, NoRegistry, TRUE, IoOk).G.out_file

\* the file that call leaves when the Generator caches are emptied before it
FileWithoutCaches ==
    generate_css_ids(WithoutCaches(GenState), last_call'.class_ids, NoRegistry,
                     last_call'.force_format, IoOk).G.out_file

SymmetricDifference(A, B) == (A \ B) \cup (B \ A)

\* C4: when the file holds the stylesheet a full regeneration wrote for S and a
\* non-forced generate_css_ids(S'), S' at most 32 ids from S, succeeds through the
\* micro-patch path, the file has the same set of rule blocks as after a forced
\* generate_css_ids(S').
C4_PatchMatchesForcedRegeneration ==
    [][(/\ calls_left' # calls_left
        /\ last_call'.path = "patch"
        /\ last_call.from_full
        /\ Cardinality(SymmetricDifference(PREV_CLASS_IDS, last_call'.class_ids))
               <= PATCH_LIMIT)
       => RuleBlockSet(out_file'.content) = RuleBlockSet(FileIfForced.content)]_vars

C6_CachesDoNotChangeOutput ==
    [][(calls_left' # calls_left) => (out_file' = FileWithoutCaches)]_vars

(***************************************************************************)
(* Control loop and background thread (main.rs:299-516, watcher.rs)        *)
(*                                                                         *)
(* A file event of the model is one that passes the per-path gates of the  *)
(* control loop (main.rs:409-449) and is handed to the watcher module.  A  *)
(* batch holds a path once (main.rs:367-394).  The handlers run under the  *)
(* locks of the maps (main.rs:461-472, :328), one at a time.               *)
(***************************************************************************)
MaxEvents == 3

\* the class sets parse_classnames_ids finds in a watched file
ParsedSets == {{}, {0}, {3}, {0, 3}}

\* the maps of the Data Manager as a record
Maps == [file_ids |-> file_ids, id_counts |-> id_counts, global_ids |-> global_ids]

\* watcher.rs:58-81, :128-145, :167-199: the maps are updated and, when the
\* global set changed, the stylesheet is regenerated without force.  gen is
\* what generate_css_ids returned, with path "none" when it was not called.
UpdateAndRegenerate(path, ids, M, G) ==
    With(update_class_maps_ids(path, ids, M.file_ids, M.id_counts, M.global_ids),
         LAMBDA r :
             [M |-> [file_ids |-> r.file_ids, id_counts |-> r.id_counts,
                     global_ids |-> r.global_ids],
              gen |-> IF r.ret.added_global > 0 \/ r.ret.removed_global > 0
                      THEN generate_css_ids(G, r.global_ids, NoRegistry, FALSE, IoOk)
                      ELSE [G |-> G, path |-> "none"]])

\* watcher.rs:44-103
process_file_remove(path, M, G) == UpdateAndRegenerate(path, {}, M, G)

\* watcher.rs:120-163: the handler returns before it updates anything
ChangeIgnored(path, ids, M) ==
    IF ids = {}
    THEN ~(path \in DOMAIN M.file_ids /\ M.file_ids[path] # {})
    ELSE ids = FileSet(M.file_ids, path)

\* watcher.rs:106-221; ids is the set the parser finds in the file
process_file_change(path, ids, M, G) ==
    IF ChangeIgnored(path, ids, M) THEN [M |-> M, gen |-> [G |-> G, path |-> "none"]]
    ELSE UpdateAndRegenerate(path, ids, M, G)

\* the state generate_css_ids leaves when it returned gen for class_ids, and
\* the record of the call
Regenerated(gen, class_ids) ==
    IF gen.path = "none"
    THEN SetGenState(gen.G) /\ UNCHANGED last_call
    ELSE Returned(gen, class_ids, FALSE)

\* the state a handler that returned r leaves
Handled(r) ==
    /\ file_ids' = r.M.file_ids
    /\ id_counts' = r.M.id_counts
    /\ global_ids' = r.M.global_ids
    /\ Regenerated(r.gen, r.M.global_ids)

\* the process after startup in a project without source files (main.rs:163-272):
\* empty maps, no generate_css_ids call yet, no output file
WatchInit ==
    /\ file_ids = << >> /\ id_counts = << >> /\ global_ids = {}
    /\ last_update = NoUpdate
    /\ removal_reports = [id \in Ids |-> 0]
    /\ out_file = NoFile
    /\ LAST_STATE = 0
    /\ since_gen = DEBOUNCE_MS
    /\ PREV_CLASS_IDS = {}
    /\ NORMALIZED_CSS_CACHE = EmptyFn
    /\ NORMALIZE_CACHE = EmptyFn
    /\ PATH_CONTENT_CACHE = Option_None
    /\ last_call = NoCall
    /\ calls_left = 0
    /\ pending_changes = FALSE
    /\ bg_last_hash = 0
    /\ since_poll = 0
    /\ batch_paths = {}
    /\ events_left = MaxEvents
    /\ LibIdle

\* main.rs:409-506 for a Modify or Create event of path
FileChange ==
    /\ events_left > 0
    /\ \E path \in Files \ batch_paths, ids \in ParsedSets :
           /\ Handled(process_file_change(path, ids, Maps, GenState))
           /\ batch_paths' = batch_paths \cup {path}
    /\ events_left' = events_left - 1
    /\ UNCHANGED <<last_update, removal_reports, calls_left,
                   pending_changes, bg_last_hash, since_poll, libVars>>

\* main.rs:409-506 for a Remove event of path
FileRemove ==
    /\ events_left > 0
    /\ \E path \in Files \ batch_paths :
           /\ Handled(process_file_remove(path, Maps, GenState))
           /\ batch_paths' = batch_paths \cup {path}
    /\ events_left' = events_left - 1
    /\ UNCHANGED <<last_update, removal_reports, calls_left,
                   pending_changes, bg_last_hash, since_poll, libVars>>

\* main.rs:509-512: the batch is done; any_changes is set when a path was processed
EndBatch ==
    /\ batch_paths # {}
    /\ batch_paths' = {}
    /\ pending_changes' = TRUE
    /\ UNCHANGED <<dmVars, genVars, bg_last_hash, since_poll, events_left, libVars>>

\* main.rs:319-346: the background thread wakes.  Its sleep of 50 ms is longer
\* than the debounce window, so it wakes when since_poll has reached the cap.
\* The hash of :330-334 is taken as a function of the set.
BgPoll ==
    /\ since_poll = DEBOUNCE_MS
    /\ since_poll' = 0
    /\ pending_changes' = FALSE
    /\ IF pending_changes /\ direct_hash_of(global_ids) # bg_last_hash
       THEN /\ bg_last_hash' = direct_hash_of(global_ids)
            /\ Regenerated(generate_css_ids(GenState, global_ids, NoRegistry,
                                            FALSE, IoOk), global_ids)
       ELSE UNCHANGED <<bg_last_hash, out_file, LAST_STATE, since_gen, PREV_CLASS_IDS,
                        NORMALIZED_CSS_CACHE, NORMALIZE_CACHE, PATH_CONTENT_CACHE,
                        last_call>>
    /\ UNCHANGED <<dmVars, calls_left, batch_paths, events_left, libVars>>

\* a millisecond passes
WatchTick ==
    /\ since_gen < DEBOUNCE_MS \/ since_poll < DEBOUNCE_MS
    /\ since_gen' = Min(since_gen + 1, DEBOUNCE_MS)
    /\ since_poll' = Min(since_poll + 1, DEBOUNCE_MS)
    /\ UNCHANGED <<dmVars, out_file, LAST_STATE, PREV_CLASS_IDS, NORMALIZED_CSS_CACHE,
                   NORMALIZE_CACHE, PATH_CONTENT_CACHE, last_call, calls_left,
                   pending_changes, bg_last_hash, batch_paths, events_left, libVars>>

WatchNext == FileChange \/ FileRemove \/ EndBatch \/ BgPoll \/ WatchTick

\* the control loop finishes the batch it received, time passes, and the
\* background thread wakes again and again (BgPoll is enabled whenever since_poll
\* has reached the cap, and only BgPoll sets since_poll to 0, so the last
\* conjunct is weak fairness of BgPoll); file events may stop at any moment
SpecWatch ==
    /\ WatchInit
    /\ [][WatchNext]_vars
    /\ WF_vars(EndBatch)
    /\ WF_vars(WatchTick)
    /\ []<>(since_poll = 0)

(***************************************************************************)
(* Claims about the watched stylesheet                                     *)
(***************************************************************************)

\* the rule blocks of the classes ids, as a forced regeneration writes them
ClassRuleBlocks(id) ==
    With(compute_css(interner_get(id), NoRegistry), LAMBDA css :
        IF css.some THEN RuleBlockSet(NormalizePasses(css.v)) ELSE {})

RulesOf(ids) == UNION {ClassRuleBlocks(id) : id \in ids}

\* the output file holds the rules of the current global set
HoldsRules == RuleBlockSet(out_file.content) = RulesOf(global_ids)

\* the generator has recorded the current global set as generated
Recorded == LAST_STATE = direct_hash_of(global_ids)

\* C5: once file events stop, the output file eventually holds the rules of the
\* current global set, also when the generate call of the last change was skipped
\* by the debounce window.  A state whose set the generator has recorded counts
\* as written, so only a set that was never written refutes the property.
C5_EventuallyRegenerated == <>[](Recorded \/ HoldsRules)

\* the step is a generate_css_ids call
CallStep == calls_left' # calls_left \/ last_call' # last_call

\* the stylesheet the full regeneration of the step built from the per-id cache
\* it filled (generator.rs:1087-1148); empty when no id has a rule
BuiltStylesheet ==
    With(Aggregate(SortedSeq(last_call'.class_ids), NORMALIZED_CSS_CACHE'),
         LAMBDA agg : IF agg.has_content THEN agg.text ELSE "")

\* C11: when a generate_css_ids call reaches full regeneration and returns, the
\* output file exists and its content is the stylesheet the call built, also
\* when a micro-patch wrote the file after the last full regeneration.
C11_FileHoldsBuiltStylesheet ==
    [][(CallStep /\ last_call'.path = "full")
       => (out_file'.exists /\ out_file'.content = BuiltStylesheet)]_vars

\* C10: after any sequence of file changes and removals and the generate_css_ids
\* calls they trigger, no rule block occurs twice in the output file.
C10_OneBlockPerClass ==
    With(RuleBlocks(out_file.content), LAMBDA blocks :
        \A i, j \in 1 .. Len(blocks) : i # j => blocks[i] # blocks[j])

(***************************************************************************)
(* Composite Registry (trash/libs/src/composites.rs)                       *)
(***************************************************************************)

\* the bytes the model's tokens, selectors and formatted rules are made of, in
\* byte order: String's Ord compares byte by byte
ByteOrder == ",-0123456789:=>abcdefghijklmnopqrstuvwxyz"

ByteRank(c) == CHOOSE i \in 1 .. Len(ByteOrder) : CharAt(ByteOrder, i) = c

RECURSIVE StrLessFrom(_, _, _)
StrLessFrom(s, t, i) ==
    IF i > Len(t) THEN FALSE
    ELSE IF i > Len(s) THEN TRUE
    ELSE IF CharAt(s, i) = CharAt(t, i) THEN StrLessFrom(s, t, i + 1)
    ELSE ByteRank(CharAt(s, i)) < ByteRank(CharAt(t, i))

\* s < t for two Strings
StrLess(s, t) == StrLessFrom(s, t, 1)

\* v with x put before the first element greater than x
RECURSIVE InsertSorted(_, _)
InsertSorted(v, x) ==
    IF v = << >> THEN <<x>>
    ELSE IF StrLess(x, Head(v)) THEN <<x>> \o v
    ELSE <<Head(v)>> \o InsertSorted(Tail(v), x)

\* Vec<String>::sort()
RECURSIVE SortStrings(_)
SortStrings(v) ==
    IF v = << >> THEN << >> ELSE InsertSorted(SortStrings(Tail(v)), Head(v))

\* composites.rs:5-14, Composite::default()
DefaultComposite ==
    [base |-> << >>, child_rules |-> << >>, state_rules |-> << >>,
     data_attr_rules |-> << >>, conditional_blocks |-> << >>,
     extra_raw |-> << >>, animations |-> << >>]

\* composites.rs:35-39: format!("{}=>{}", s, t.join(",")) with t the sorted tokens
FormatRule(rule) == rule[1] \o "=>" \o Join(SortStrings(rule[2]), ",")

FormatRules(rules) == [i \in 1 .. Len(rules) |-> FormatRule(rules[i])]

\* composites.rs:28-81: what hash_composite feeds to the hasher, in this order.
\* Hash for Vec<String> writes the length and every string with a terminator, so
\* the bytes fed determine this tuple.
HasherInput(c) ==
    <<SortStrings(c.base),
      SortStrings(FormatRules(c.child_rules)),
      SortStrings(FormatRules(c.conditional_blocks)),
      SortStrings(FormatRules(c.state_rules)),
      SortStrings(FormatRules(c.data_attr_rules)),
      SortStrings(c.animations),
      SortStrings(c.extra_raw)>>

\* Values of format!("{:x}", h.finish()) (composites.rs:82) the model draws from:
\* two of them agree in their first 8 characters, one is shorter than 8.
HashTexts == {"9f3c2a1b5d0e7788", "9f3c2a1b00c4e2a1", "c0ffee0012345678", "3e8"}

\* SeaHasher is a fixed function the model does not compute.  seahash records
\* the text it gave each input hashed so far; an input hashed for the first time
\* gets any text no other input has (64-bit collisions are left out).
SeaHashes(c) ==
    IF HasherInput(c) \in DOMAIN seahash
    THEN {seahash}
    ELSE {[x \in DOMAIN seahash \cup {HasherInput(c)} |->
              IF x = HasherInput(c) THEN h ELSE seahash[x]] :
          h \in HashTexts \ {seahash[x] : x \in DOMAIN seahash}}

\* composites.rs:25-83
hash_composite(c, sea) == sea[HasherInput(c)]

\* HashMap::insert
HashMapInsert(m, k, v) == [x \in DOMAIN m \cup {k} |-> IF x = k THEN v ELSE m[x]]

Registry == [map |-> reg_map, data |-> reg_data]

\* composites.rs:93-103 without the lookup of :96-98
get_or_create_full_Mut_NoLookup(c, reg, sea) ==
    With(hash_composite(c, sea), LAMBDA hash :
        With("dx-class-" \o SubSeq(hash, 1, Min(8, Len(hash))), LAMBDA class_name :
            [map |-> HashMapInsert(reg.map, hash, class_name),
             data |-> HashMapInsert(reg.data, class_name, c),
             ret |-> class_name]))

\* composites.rs:93-103
get_or_create_full(c, reg, sea) ==
    With(hash_composite(c, sea), LAMBDA hash :
        IF hash \in DOMAIN reg.map                                        \* :96
        THEN [map |-> reg.map, data |-> reg.data, ret |-> reg.map[hash]]  \* :97
        ELSE With("dx-class-" \o SubSeq(hash, 1, Min(8, Len(hash))),      \* :99
                  LAMBDA class_name :
                 [map |-> HashMapInsert(reg.map, hash, class_name),       \* :100
                  data |-> HashMapInsert(reg.data, class_name, c),        \* :101
                  ret |-> class_name]))

\* composites.rs:85-91
get_or_create(tokens, reg, sea) ==
    get_or_create_full([DefaultComposite EXCEPT !.base = tokens], reg, sea)

\* composites.rs:105-109: entry(raw).or_insert(c)
register_grouping_raw(raw, c, reg) ==
    [map |-> reg.map,
     data |-> IF raw \in DOMAIN reg.data THEN reg.data
              ELSE HashMapInsert(reg.data, raw, c),
     ret |-> raw]

\* composites.rs:111-114
composites_get(class_name, reg) ==
    IF class_name \in DOMAIN reg.data THEN Option_Some(reg.data[class_name])
    ELSE Option_None

MaxRegCalls == 3

\* token lists passed to get_or_create
TokenLists == {<<"a", "b">>, <<"b", "a">>, <<"a">>}

\* composites passed to get_or_create_full and register_grouping_raw
FullComposites ==
    {[DefaultComposite EXCEPT !.base = <<"a">>,
                              !.child_rules = <<<<">", <<"a", "b">>>>>>],
     [DefaultComposite EXCEPT !.base = <<"a">>,
                              !.child_rules = <<<<">", <<"b", "a">>>>>>],
     [DefaultComposite EXCEPT !.base = <<"b", "a">>,
                              !.state_rules = <<<<"hover", <<"b">>>>>>]}

\* raw grouping texts passed to register_grouping_raw
RawTexts == {"card", "dx-class-9f3c2a1b"}

\* the Data Manager without files, for behaviours that never call it
DMIdle ==
    /\ file_ids = << >> /\ id_counts = << >> /\ global_ids = {}
    /\ last_update = NoUpdate
    /\ removal_reports = [id \in Ids |-> 0]

RegInit ==
    /\ DMIdle /\ GenIdle /\ WatchIdle
    /\ reg_map = EmptyFn
    /\ reg_data = EmptyFn
    /\ seahash = EmptyFn
    /\ reg_calls = {}
    /\ reg_last = NoRegCall
    /\ reg_left = MaxRegCalls
    /\ int_map = EmptyFn
    /\ int_strings = << >>
    /\ int_escaped = << >>
    /\ int_calls = {}
    /\ LockIdle
    /\ PureIdle

\* the registry after a call that returned r, and the record of the call
RegReturned(op, c, r) ==
    /\ reg_map' = r.map
    /\ reg_data' = r.data
    /\ reg_last' = [op |-> op, content |-> c, name |-> r.ret]
    /\ reg_left' = reg_left - 1

GetOrCreate ==
    /\ reg_left > 0
    /\ \E tokens \in TokenLists :
       \E sea \in SeaHashes([DefaultComposite EXCEPT !.base = tokens]) :
           With(get_or_create(tokens, Registry, sea), LAMBDA r :
               /\ RegReturned("get_or_create",
                              [DefaultComposite EXCEPT !.base = tokens], r)
               /\ seahash' = sea
               /\ reg_calls' = reg_calls \cup
                      {[content |-> [DefaultComposite EXCEPT !.base = tokens],
                        name |-> r.ret]})
    /\ UNCHANGED <<dmVars, genVars, watchVars, intVars, lkVars, pureVars>>

GetOrCreateFull ==
    /\ reg_left > 0
    /\ \E c \in FullComposites :
       \E sea \in SeaHashes(c) :
           With(get_or_create_full(c, Registry, sea), LAMBDA r :
               /\ RegReturned("get_or_create_full", c, r)
               /\ seahash' = sea
               /\ reg_calls' = reg_calls \cup {[content |-> c, name |-> r.ret]})
    /\ UNCHANGED <<dmVars, genVars, watchVars, intVars, lkVars, pureVars>>

RegisterGroupingRaw ==
    /\ reg_left > 0
    /\ \E raw \in RawTexts, c \in FullComposites :
           RegReturned("register_grouping_raw", c,
                       register_grouping_raw(raw, c, Registry))
    /\ UNCHANGED <<seahash, reg_calls>>
    /\ UNCHANGED <<dmVars, genVars, watchVars, intVars, lkVars, pureVars>>

RegNext == GetOrCreate \/ GetOrCreateFull \/ RegisterGroupingRaw

SpecReg == RegInit /\ [][RegNext]_vars

(***************************************************************************)
(* Claims about the Composite Registry                                     *)
(***************************************************************************)

\* s and t hold the same elements the same number of times
IsPermutation(s, t) ==
    /\ Len(s) = Len(t)
    /\ \A x \in SeqToSet(s) \cup SeqToSet(t) :
           Cardinality({i \in 1 .. Len(s) : s[i] = x})
               = Cardinality({i \in 1 .. Len(t) : t[i] = x})

\* two rule sections hold the same rules up to the order of the rules and of the
\* tokens of each rule
SameRules(r, q) ==
    /\ Len(r) = Len(q)
    /\ \E f \in [1 .. Len(r) -> 1 .. Len(q)] :
           /\ \A i, j \in 1 .. Len(r) : i # j => f[i] # f[j]
           /\ \A i \in 1 .. Len(r) :
                  /\ r[i][1] = q[f[i]][1]
                  /\ IsPermutation(r[i][2], q[f[i]][2])

\* the same tokens per section up to ordering
SameContent(c, d) ==
    /\ IsPermutation(c.base, d.base)
    /\ SameRules(c.child_rules, d.child_rules)
    /\ SameRules(c.state_rules, d.state_rules)
    /\ SameRules(c.data_attr_rules, d.data_attr_rules)
    /\ SameRules(c.conditional_blocks, d.conditional_blocks)
    /\ IsPermutation(c.extra_raw, d.extra_raw)
    /\ IsPermutation(c.animations, d.animations)

\* the registry entries under the names returned for the content of call p
EntriesFor(p) ==
    {n \in DOMAIN reg_data :
        \E q \in reg_calls : SameContent(p.content, q.content) /\ q.name = n}

\* the step is a get_or_create or get_or_create_full call with a content that was
\* registered before
RepeatedRegistration ==
    /\ reg_last'.op \in {"get_or_create", "get_or_create_full"}
    /\ reg_left' < reg_left
    /\ \E q \in reg_calls : SameContent(q.content, reg_last'.content)

\* C7: get_or_create and get_or_create_full return the same name for any two
\* composites with the same tokens per section up to ordering, the registry
\* holds exactly one entry for such a content, and registering the content
\* again adds nothing to the registry.
C7_SameContentSameName ==
    /\ [](/\ \A p, q \in reg_calls :
                SameContent(p.content, q.content) => p.name = q.name
          /\ \A p \in reg_calls : Cardinality(EntriesFor(p)) = 1)
    /\ [][RepeatedRegistration => reg_map' = reg_map /\ reg_data' = reg_data]_vars

\* two contents that differ only in the order of their tokens were registered,
\* next to a different content
C7_Witness ==
    /\ \E p, q \in reg_calls :
           p.content # q.content /\ SameContent(p.content, q.content)
    /\ \E p, q \in reg_calls : ~SameContent(p.content, q.content)
    /\ reg_left = 0

\* C8: after any sequence of get_or_create, get_or_create_full and
\* register_grouping_raw calls, no call replaces or removes the composite stored
\* under a name that is already registered.
C8_EntriesNeverReplaced ==
    [][\A n \in DOMAIN reg_data :
           n \in DOMAIN reg_data' /\ reg_data'[n] = reg_data[n]]_vars

(***************************************************************************)
(* Class Interner (trash/libs/src/interner.rs)                             *)
(***************************************************************************)

MaxInterned == 4

\* strings passed to intern
InternStrings == {"btn", "md:btn", "btn-lg", "1a", "zz"}

Interner == [map |-> int_map, strings |-> int_strings, escaped |-> int_escaped]

\* interner.rs:22-60 without the lookup of :23-25
intern_Mut_NoLookup(s, I) ==
    With(Len(I.strings), LAMBDA id :
        [map |-> HashMapInsert(I.map, s, id),
         strings |-> Append(I.strings, s),
         escaped |-> Append(I.escaped, serialize_identifier(s)),
         ret |-> id, found |-> FALSE])

\* interner.rs:22-60.  Acc::write_str returns Ok for every input, so
\* serialize_identifier does not fail and :42-56 is not taken.
intern(s, I) ==
    IF s \in DOMAIN I.map                                               \* :23
    THEN [map |-> I.map, strings |-> I.strings, escaped |-> I.escaped,
          ret |-> I.map[s], found |-> TRUE]                             \* :24
    ELSE With(Len(I.strings), LAMBDA id :                               \* :26
             [map |-> HashMapInsert(I.map, s, id),                      \* :58
              strings |-> Append(I.strings, s),                         \* :27
              escaped |-> Append(I.escaped, serialize_identifier(s)),   \* :38-57
              ret |-> id, found |-> FALSE])

\* interner.rs:63-65
ClassInterner_get(id, I) == I.strings[id + 1]

\* interner.rs:68-70
ClassInterner_escaped(id, I) == I.escaped[id + 1]

\* interner.rs:72-74
ClassInterner_len(I) == Len(I.strings)

IntInit ==
    /\ DMIdle /\ GenIdle /\ WatchIdle
    /\ reg_map = EmptyFn
    /\ reg_data = EmptyFn
    /\ seahash = EmptyFn
    /\ reg_calls = {}
    /\ reg_last = NoRegCall
    /\ reg_left = 0
    /\ int_map = EmptyFn          \* interner.rs:13-19
    /\ int_strings = << >>
    /\ int_escaped = << >>
    /\ int_calls = {}
    /\ LockIdle
    /\ PureIdle

\* one call intern(s)
Intern ==
    /\ \E s \in InternStrings :
           /\ s \in DOMAIN int_map \/ Len(int_strings) < MaxInterned
           /\ With(intern(s, Interner), LAMBDA r :
                  /\ int_map' = r.map
                  /\ int_strings' = r.strings
                  /\ int_escaped' = r.escaped
                  /\ int_calls' = int_calls \cup
                         {[s |-> s, id |-> r.ret, again |-> r.found]})
    /\ UNCHANGED <<dmVars, genVars, watchVars, regVars, lkVars, pureVars>>

IntNext == Intern

SpecInt == IntInit /\ [][IntNext]_vars

(***************************************************************************)
(* Claims about the Class Interner                                         *)
(***************************************************************************)

\* C9: after any sequence of intern calls the interner is a bijection between
\* the ids 0 .. len-1 and the strings interned so far: every call for the same
\* string returned the same id, calls for different strings returned different
\* ids, get(intern(s)) = s, and the id returned by an earlier call still names
\* the string of that call.
C9_InternerBijection ==
    /\ DOMAIN int_map = {c.s : c \in int_calls}
    /\ Cardinality(DOMAIN int_map) = ClassInterner_len(Interner)
    /\ \A s \in DOMAIN int_map :
           /\ int_map[s] \in 0 .. (ClassInterner_len(Interner) - 1)
           /\ ClassInterner_get(int_map[s], Interner) = s
    /\ \A id \in 0 .. (ClassInterner_len(Interner) - 1) :
           /\ ClassInterner_get(id, Interner) \in DOMAIN int_map
           /\ int_map[ClassInterner_get(id, Interner)] = id
    /\ \A c, d \in int_calls : (c.s = d.s) <=> (c.id = d.id)
    /\ \A c \in int_calls :
           /\ c.id \in 0 .. (ClassInterner_len(Interner) - 1)
           /\ ClassInterner_get(c.id, Interner) = c.s

\* three strings are interned, the first of them was interned a second time
\* after the others, and one string differs from its escaped form
C9_Witness ==
    /\ ClassInterner_len(Interner) >= 3
    /\ \E c \in int_calls : c.again /\ c.id = 0
    /\ \E id \in 0 .. (ClassInterner_len(Interner) - 1) :
           ClassInterner_escaped(id, Interner) # ClassInterner_get(id, Interner)

(***************************************************************************)
(* The control loop and the background thread, step by step                *)
(* (main.rs:314-346, :461-512).  Each thread locks its mutexes one after   *)
(* the other, in the order of the tuple it builds; lock() blocks while     *)
(* another thread holds the mutex.  A generate_css_ids call takes effect   *)
(* when it starts; the caller stays at "generate" until the call returns.  *)
(***************************************************************************)

MaxLockEvents == 2

\* main.rs:461-472, in the order of the tuple
LoopLocks_Mut_MapsOnly == <<"file_classnames_ids", "classname_counts_ids">>

LoopLocks == <<"file_classnames_ids", "classname_counts_ids",
               "global_classnames_ids", "interner">>

\* main.rs:328 with the two lock() calls swapped
BgLocks_Mut_InternerFirst == <<"interner", "global_classnames_ids">>

\* main.rs:328
BgLocks == <<"global_classnames_ids", "interner">>

LocksOf(t) == IF t = "loop" THEN LoopLocks ELSE BgLocks

\* thread t has locked all its mutexes
HoldsAll(t) == lk_pc[t] = "locking" /\ lk_held[t] = Len(LocksOf(t))

LockInit ==
    /\ DMIdle /\ GenIdle
    /\ pending_changes = FALSE
    /\ bg_last_hash = 0
    /\ since_poll = 0
    /\ batch_paths = {}
    /\ events_left = MaxLockEvents
    /\ reg_map = EmptyFn
    /\ reg_data = EmptyFn
    /\ seahash = EmptyFn
    /\ reg_calls = {}
    /\ reg_last = NoRegCall
    /\ reg_left = 0
    /\ int_map = EmptyFn
    /\ int_strings = << >>
    /\ int_escaped = << >>
    /\ int_calls = {}
    /\ LockIdle
    /\ PureIdle

\* Mutex::lock() of the next mutex of thread t
Lock(t) ==
    /\ lk_pc[t] = "locking"
    /\ lk_held[t] < Len(LocksOf(t))
    /\ lk_owner[LocksOf(t)[lk_held[t] + 1]] = "none"
    /\ lk_owner' = [lk_owner EXCEPT ![LocksOf(t)[lk_held[t] + 1]] = t]
    /\ lk_held' = [lk_held EXCEPT ![t] = @ + 1]
    /\ UNCHANGED <<lk_pc, dmVars, genVars, watchVars, regVars, intVars, pureVars>>

\* the guards of thread t are dropped at the end of its `if let` block
Unlocked(t) ==
    /\ lk_owner' = [m \in Mutexes |-> IF lk_owner[m] = t THEN "none" ELSE lk_owner[m]]
    /\ lk_held' = [lk_held EXCEPT ![t] = 0]

\* main.rs:366-451: the control loop takes a path of a received batch
LoopEvent ==
    /\ lk_pc["loop"] = "idle"
    /\ events_left > 0
    /\ events_left' = events_left - 1
    /\ lk_pc' = [lk_pc EXCEPT !["loop"] = "locking"]
    /\ UNCHANGED <<lk_held, lk_owner, dmVars, genVars, pending_changes, bg_last_hash,
                   since_poll, batch_paths, regVars, intVars, pureVars>>

\* watcher.rs:58-67, :120-186 under the four locks: the handler parses the file
\* and updates the maps; it goes on to generate_css_ids when the global set
\* changed
LoopUpdate ==
    /\ HoldsAll("loop")
    /\ \E path \in Files, ids \in ParsedSets, is_remove \in BOOLEAN :
           /\ is_remove => ids = {}
           /\ IF ~is_remove /\ ChangeIgnored(path, ids, Maps)
              THEN /\ UNCHANGED <<file_ids, id_counts, global_ids>>
                   /\ lk_pc' = [lk_pc EXCEPT !["loop"] = "unlock"]
              ELSE With(update_class_maps_ids(path, ids, file_ids, id_counts,
                                              global_ids),
                        LAMBDA r :
                            /\ file_ids' = r.file_ids
                            /\ id_counts' = r.id_counts
                            /\ global_ids' = r.global_ids
                            /\ lk_pc' = [lk_pc EXCEPT !["loop"] =
                                   IF r.ret.added_global > 0 \/ r.ret.removed_global > 0
                                   THEN "updated" ELSE "unlock"])
    /\ UNCHANGED <<last_update, removal_reports, lk_held, lk_owner, genVars,
                   watchVars, regVars, intVars, pureVars>>

\* watcher.rs:74-80, :138-144, :191-197: the handler calls generate_css_ids
LoopGenerate ==
    /\ lk_pc["loop"] = "updated"
    /\ Regenerated(generate_css_ids(GenState, global_ids, NoRegistry, FALSE, IoOk),
                   global_ids)
    /\ lk_pc' = [lk_pc EXCEPT !["loop"] = "generate"]
    /\ UNCHANGED <<calls_left, lk_held, lk_owner, dmVars, watchVars, regVars, intVars, pureVars>>

\* generate_css_ids returns to thread t
Return(t) ==
    /\ lk_pc[t] = "generate"
    /\ lk_pc' = [lk_pc EXCEPT ![t] = "unlock"]
    /\ UNCHANGED <<lk_held, lk_owner, dmVars, genVars, watchVars, regVars, intVars, pureVars>>

\* main.rs:505-506: the handler has returned, the guards are dropped
LoopUnlock ==
    /\ lk_pc["loop"] = "unlock"
    /\ Unlocked("loop")
    /\ lk_pc' = [lk_pc EXCEPT !["loop"] = "signal"]
    /\ UNCHANGED <<dmVars, genVars, watchVars, regVars, intVars, pureVars>>

\* main.rs:509-512
LoopSignal ==
    /\ lk_pc["loop"] = "signal"
    /\ pending_changes' = TRUE
    /\ lk_pc' = [lk_pc EXCEPT !["loop"] = "idle"]
    /\ UNCHANGED <<lk_held, lk_owner, dmVars, genVars, bg_last_hash, since_poll,
                   batch_paths, events_left, regVars, intVars, pureVars>>

\* main.rs:319-327: the background thread wakes and finds the flag set
BgWake ==
    /\ lk_pc["bg"] = "idle"
    /\ pending_changes
    /\ pending_changes' = FALSE
    /\ lk_pc' = [lk_pc EXCEPT !["bg"] = "locking"]
    /\ UNCHANGED <<lk_held, lk_owner, dmVars, genVars, bg_last_hash, since_poll,
                   batch_paths, events_left, regVars, intVars, pureVars>>

\* main.rs:329-343 under the two locks: the hash of the global set is compared
\* with last_hash and generate_css_ids is called when it differs
BgCheck ==
    /\ HoldsAll("bg")
    /\ IF direct_hash_of(global_ids) # bg_last_hash
       THEN /\ bg_last_hash' = direct_hash_of(global_ids)
            /\ Regenerated(generate_css_ids(GenState, global_ids, NoRegistry,
                                            FALSE, IoOk), global_ids)
            /\ lk_pc' = [lk_pc EXCEPT !["bg"] = "generate"]
       ELSE /\ UNCHANGED <<bg_last_hash, out_file, LAST_STATE, since_gen,
                           PREV_CLASS_IDS, NORMALIZED_CSS_CACHE, NORMALIZE_CACHE,
                           PATH_CONTENT_CACHE, last_call>>
            /\ lk_pc' = [lk_pc EXCEPT !["bg"] = "unlock"]
    /\ UNCHANGED <<calls_left, lk_held, lk_owner, dmVars, pending_changes, since_poll,
                   batch_paths, events_left, regVars, intVars, pureVars>>

\* main.rs:344-345: the guards of the background thread are dropped
BgUnlock ==
    /\ lk_pc["bg"] = "unlock"
    /\ Unlocked("bg")
    /\ lk_pc' = [lk_pc EXCEPT !["bg"] = "idle"]
    /\ UNCHANGED <<dmVars, genVars, watchVars, regVars, intVars, pureVars>>

\* a millisecond passes
LockTick ==
    /\ since_gen < DEBOUNCE_MS
    /\ since_gen' = since_gen + 1
    /\ UNCHANGED <<out_file, LAST_STATE, PREV_CLASS_IDS, NORMALIZED_CSS_CACHE,
                   NORMALIZE_CACHE, PATH_CONTENT_CACHE, last_call, calls_left>>
    /\ UNCHANGED <<dmVars, watchVars, libVars>>

LockNext ==
    \/ LoopEvent \/ Lock("loop") \/ LoopUpdate \/ LoopGenerate \/ Return("loop")
    \/ LoopUnlock \/ LoopSignal
    \/ BgWake \/ Lock("bg") \/ BgCheck \/ Return("bg") \/ BgUnlock
    \/ LockTick

SpecLock == LockInit /\ [][LockNext]_vars

\* thread t is between its first lock() and the drop of its guards
InBlock(t) == lk_pc[t] \in {"locking", "updated", "generate", "unlock"}

\* the next step of thread t inside its block is possible: lock() returns when
\* the mutex is free, the handler and generate_css_ids return, the guards drop
CanStep(t) ==
    /\ InBlock(t)
    /\ (lk_pc[t] = "locking" /\ lk_held[t] < Len(LocksOf(t)))
           => lk_owner[LocksOf(t)[lk_held[t] + 1]] = "none"

\* thread t takes a step inside its block: every such step moves its position
\* or the number of mutexes it holds
StepOf(t) ==
    /\ InBlock(t)
    /\ lk_pc'[t] # lk_pc[t] \/ lk_held'[t] # lk_held[t]

\* both threads are scheduled: weak fairness of each thread's steps inside its
\* block, WF_vars(StepOf(t)) with the enabling condition written as CanStep(t)
SpecLockFair ==
    /\ SpecLock
    /\ \A t \in Threads : []<>(~CanStep(t)) \/ []<><<StepOf(t)>>_vars

(***************************************************************************)
(* Claims about the two threads                                            *)
(***************************************************************************)

\* C13: the two threads never execute generate_css_ids at the same time, and
\* the background thread is not in its generate_css_ids call while the control
\* loop is between the update of the maps for a file event and the return of
\* the generate_css_ids call made for that update.
C13_OneRegenerationAtATime ==
    lk_pc["loop"] \in {"updated", "generate"} => lk_pc["bg"] # "generate"

\* the background thread found the flag set and waits for a mutex while the
\* control loop has updated the maps and not yet called generate_css_ids
C13_Witness ==
    /\ lk_pc["loop"] = "updated"
    /\ lk_pc["bg"] = "locking"
    /\ lk_held["bg"] = 0
    /\ global_ids # {}

(***************************************************************************)
(* Grouping Parser: ClassNameVisitor::expand_grouping (parser.rs:62-550)   *)
(***************************************************************************)

\* parser.rs:64
SCREENS == {"xs", "sm", "md", "lg", "xl", "2xl"}

\* parser.rs:65-99
STATES ==
    {"hover", "focus", "focus-within", "focus-visible", "active", "visited",
     "disabled", "checked", "first", "last", "odd", "even", "required",
     "optional", "valid", "invalid", "read-only", "before", "after",
     "placeholder", "file", "marker", "selection", "group-hover", "group-focus",
     "group-active", "group-visited", "peer-checked", "peer-focus",
     "peer-active", "peer-hover", "empty", "target"}

\* parser.rs:100-103
CQS ==
    {"@xs", "@sm", "@md", "@lg", "@xl", "@2xl", "@3xl", "@4xl", "@5xl", "@6xl",
     "@7xl", "@8xl", "@9xl"}

\* parser.rs:246-262: the identifiers that open a child rule
ChildTags ==
    {"div", "span", "p", "h1", "h2", "h3", "h4", "h5", "h6", "ul", "li",
     "section", "header", "footer", "main", "nav"}

\* char::is_alphabetic and char::is_alphanumeric on ASCII text
AlphabeticChars ==
    {"a", "b", "c", "d", "e", "f", "g", "h", "i", "j", "k", "l", "m", "n", "o",
     "p", "q", "r", "s", "t", "u", "v", "w", "x", "y", "z",
     "A", "B", "C", "D", "E", "F", "G", "H", "I", "J", "K", "L", "M", "N", "O",
     "P", "Q", "R", "S", "T", "U", "V", "W", "X", "Y", "Z"}

AlphanumericChars ==
    AlphabeticChars \cup {"0", "1", "2", "3", "4", "5", "6", "7", "8", "9"}

\* parser.rs:134-143 and :160-168: the position after the parenthesis that
\* closes the one opened before i, or after the end of the text
RECURSIVE SkipGroup(_, _, _)
SkipGroup(s, i, depth) ==
    IF i > Len(s) \/ depth = 0 THEN i
    ELSE SkipGroup(s, i + 1,
                   IF CharAt(s, i) = "(" THEN depth + 1
                   ELSE IF CharAt(s, i) = ")" THEN depth - 1
                   ELSE depth)

\* parser.rs:148-189: the tag(...) groupings written inside a grouping
RECURSIVE NestedChildren(_, _)
NestedChildren(inner, j) ==
    IF j > Len(inner) THEN << >>
    ELSE IF CharAt(inner, j) \notin AlphabeticChars
    THEN NestedChildren(inner, j + 1)                                  \* :186
    ELSE With(Scan(inner, AlphanumericChars \cup {"-"}, FALSE, j), LAMBDA e :
        IF e > Len(inner) \/ CharAt(inner, e) # "("
        THEN NestedChildren(inner, e)
        ELSE With(SkipGroup(inner, e + 1, 1), LAMBDA after :
            With([tag |-> Split(SubSeq(inner, j, Len(inner)), "(")[1],  \* :171-175
                  toks |-> SplitNonEmpty(SubSeq(inner, e + 1, after - 2),
                                         WhitespaceChars)],            \* :176-181
                 LAMBDA child :
                (IF child.tag # "" /\ child.toks # << >>                \* :182
                 THEN <<<<child.tag, child.toks>>>> ELSE << >>)
                \o NestedChildren(inner, after))))

\* HashMap::get as a token list: the list, or the empty list for no entry
Tokens(m, k) == IF k \in DOMAIN m THEN m[k] ELSE << >>

\* HashMap::entry(k).or_insert(v)
EntryOrInsert(m, k, v) == IF k \in DOMAIN m THEN m ELSE HashMapInsert(m, k, v)

\* parser.rs:402-425: the closure expand_component_tokens
expand_component_tokens(tokens, components, local_components) ==
    Flatten([k \in 1 .. Len(tokens) |->
        With(tokens[k], LAMBDA t :
            With(SubSeq(t, 2, Len(t)), LAMBDA name :
                IF StartsWith(t, "$") /\ name \in DOMAIN components
                THEN components[name]
                ELSE IF StartsWith(t, "$") /\ name \in DOMAIN local_components
                THEN local_components[name]
                ELSE IF StartsWith(t, "_") /\ name \in DOMAIN local_components
                THEN local_components[name]
                ELSE IF StartsWith(t, "_") /\ name \in DOMAIN components
                THEN components[name]
                ELSE <<t>>))])

ExpandRules(rules, components, local_components) ==
    [k \in 1 .. Len(rules) |->
        <<rules[k][1],
          expand_component_tokens(rules[k][2], components, local_components)>>]

\* parser.rs:426-438: every token list of the composite, expanded
ExpandEmit(c, components, local_components) ==
    [base |-> expand_component_tokens(c.base, components, local_components),
     child_rules |-> ExpandRules(c.child_rules, components, local_components),
     state_rules |-> ExpandRules(c.state_rules, components, local_components),
     data_attr_rules |->
         ExpandRules(c.data_attr_rules, components, local_components),
     conditional_blocks |->
         ExpandRules(c.conditional_blocks, components, local_components),
     extra_raw |-> c.extra_raw,
     animations |-> c.animations]

\* pending: Option<Composite>; c is the default composite when there is none
NoPending == [some |-> FALSE, c |-> DefaultComposite]

\* parser.rs:110-114: the closure ensure
ensure(pending) == [some |-> TRUE, c |-> pending.c]

\* parser.rs:108-119: the locals of expand_grouping before its loop, with the
\* visitor's components, the registry and the hash texts given so far; ok is
\* FALSE once the model has no hash text left for a new hasher input
ParserState(components, reg, sea) ==
    [out |-> << >>, pending |-> NoPending, local_components |-> EmptyFn,
     components |-> components, reg |-> reg, sea |-> sea,
     animate_mode |-> FALSE, animate_group_start |-> 0, ok |-> TRUE]

\* the hash texts in the order the hasher gives them to new inputs
HashOrders ==
    {o \in [1 .. Cardinality(HashTexts) -> HashTexts] :
        \A a, b \in DOMAIN o : o[a] = o[b] => a = b}

\* composites::get_or_create called by the parser, and out.push of its name
PushComposite(S, tokens, order) ==
    With(HasherInput([DefaultComposite EXCEPT !.base = tokens]), LAMBDA input :
        With(SelectSeq(order,
                       LAMBDA h : h \notin {S.sea[x] : x \in DOMAIN S.sea}),
             LAMBDA free :
            IF input \notin DOMAIN S.sea /\ free = << >>
            THEN [S EXCEPT !.ok = FALSE]
            ELSE With(IF input \in DOMAIN S.sea THEN S.sea
                      ELSE HashMapInsert(S.sea, input, free[1]), LAMBDA sea :
                     With(get_or_create(tokens, S.reg, sea), LAMBDA r :
                         [S EXCEPT !.sea = sea,
                                   !.reg = [map |-> r.map, data |-> r.data],
                                   !.out = Append(@, r.ret)]))))

\* c.base.push(token) on the ensured pending composite
PushBase(S, tokens) ==
    [S EXCEPT !.pending = [some |-> TRUE,
                           c |-> [S.pending.c EXCEPT !.base = @ \o tokens]]]

\* c.<field>.push((name, tokens)) on the ensured pending composite
PushRule(S, field, name, tokens) ==
    [S EXCEPT !.pending =
        [some |-> TRUE,
         c |-> [S.pending.c EXCEPT ![field] = Append(@, <<name, tokens>>)]]]

\* parser.rs:303-309: the closure parse_part
parse_part(s) ==
    With(Split(s, "@"), LAMBDA parts :
        <<Trim(parts[1]), Trim(IF Len(parts) >= 2 THEN parts[2] ELSE "base")>>)

\* parser.rs:290-320: the base token of ~prop(min@bp, max@bp), if it has two parts
FluidToken(ident, inner) ==
    With(TrimStartMatches(ident, {"~"}), LAMBDA raw_prop :
        With(TrimmedNonEmpty(Split(inner, ",")), LAMBDA pieces :
            IF Len(pieces) < 2 THEN << >>
            ELSE <<"fluid:" \o (IF raw_prop = "text" THEN "font-size" ELSE raw_prop)
                   \o ":" \o parse_part(pieces[1])[1]
                   \o ":" \o parse_part(pieces[1])[2]
                   \o ":" \o parse_part(pieces[2])[1]
                   \o ":" \o parse_part(pieces[2])[2]>>))

\* parser.rs:323-348: the base token of mesh(...), if it names a colour
MeshToken(inner) ==
    With(TrimmedNonEmpty(SplitNonEmpty(inner, {"[", "]", ","})), LAMBDA mesh_colors :
        IF mesh_colors = << >> THEN << >>
        ELSE <<"gradient:mesh:" \o Join(mesh_colors, "+")>>)

\* parser.rs:198-226: +name(...) and -name(...)
Recompose(S, ident, inner_tokens, order) ==
    With(TrimStartMatches(ident, {"+", "-"}), LAMBDA cname :
        With(Tokens(S.components, cname) \o Tokens(S.local_components, cname),
             LAMBDA base :
            With(IF StartsWith(ident, "+") THEN base \o inner_tokens
                 ELSE SelectSeq(base, LAMBDA t :
                          \A k \in 1 .. Len(inner_tokens) :
                              ~StartsWith(t, inner_tokens[k])),
                 LAMBDA tokens :
                IF tokens = << >> THEN S ELSE PushComposite(S, tokens, order))))

\* parser.rs:198-395: what an identifier followed by (inner) does
Grouping(S, ident, inner, order) ==
    With(SplitNonEmpty(inner, WhitespaceChars \cup {","}), LAMBDA inner_tokens :
        IF StartsWith(ident, "+") \/ StartsWith(ident, "-")              \* :198
        THEN Recompose(S, ident, inner_tokens, order)
        ELSE IF ident \in SCREENS                                        \* :227
        THEN PushRule(S, "conditional_blocks", "screen:" \o ident, inner_tokens)
        ELSE IF ident \in STATES \cup CQS \cup {"dark", "light"}         \* :233
        THEN PushRule(S, "state_rules", ident, inner_tokens)
        ELSE IF ident \in ChildTags                                      \* :246
        THEN With(PushRule(S, "child_rules", ident, inner_tokens), LAMBDA T :
                 [T EXCEPT !.pending.c.child_rules =
                               @ \o NestedChildren(inner, 1)])
        ELSE IF StartsWith(ident, "*")                                   \* :272
        THEN PushRule(S, "data_attr_rules", TrimStartMatches(ident, {"*"}),
                      inner_tokens)
        ELSE IF StartsWith(ident, "?")                                   \* :278
        THEN With(SubSeq(ident, 2, Len(ident)), LAMBDA cond :
                 PushRule(S, "conditional_blocks",
                          IF StartsWith(cond, "@self:")
                          THEN "self:" \o SubSeq(cond, 7, Len(cond)) ELSE cond,
                          inner_tokens))
        ELSE IF StartsWith(ident, "~")                                   \* :289
        THEN PushBase(S, FluidToken(ident, inner))
        ELSE IF ident = "mesh"                                           \* :321
        THEN PushBase(S, MeshToken(inner))
        ELSE IF ident = "transition"                                     \* :349
        THEN PushBase(S, <<"transition("
                           \o (IF inner_tokens = << >> THEN "150ms"
                               ELSE inner_tokens[1]) \o ")">>)
        ELSE IF StartsWith(ident, "$")                                   \* :358
        THEN IF inner_tokens = << >> THEN S
             ELSE With(PushComposite(S, inner_tokens, order), LAMBDA T :
                      [T EXCEPT !.components =
                          EntryOrInsert(@, SubSeq(ident, 2, Len(ident)),
                                        inner_tokens)])
        ELSE IF StartsWith(ident, "_")                                   \* :368
        THEN [S EXCEPT !.local_components =
                           EntryOrInsert(@, TrimStartMatches(ident, {"_"}),
                                         inner_tokens),
                       !.pending = ensure(@)]
        ELSE IF ident \in {"from", "to", "via"}                          \* :374
        THEN [S EXCEPT !.pending =
                 [some |-> TRUE,
                  c |-> [S.pending.c EXCEPT !.animations =
                            Append(@, ident \o "|" \o Join(inner_tokens, "+"))]]]
        ELSE IF ident = "motion"                                         \* :384
        THEN PushBase(S, <<"motion:" \o Join(inner_tokens, "_")>>)
        ELSE With(EntryOrInsert(S.components, ident, inner_tokens),      \* :389
                  LAMBDA components :
                 PushBase([S EXCEPT !.components = components],
                          components[ident])))

\* parser.rs:400-446 and :487-535: the pending composite, if there is one, is
\* registered under the trimmed source text from slice_start up to position i,
\* and that text is pushed to out
Finalize(S, raw, start, i) ==
    IF ~S.pending.some THEN S
    ELSE With(register_grouping_raw(
                  Trim(SubSeq(raw,
                              IF S.animate_group_start # 0
                              THEN S.animate_group_start ELSE start,
                              i - 1)),
                  ExpandEmit(S.pending.c, S.components, S.local_components),
                  S.reg),
              LAMBDA r :
             [S EXCEPT !.pending = NoPending,
                       !.reg = [map |-> r.map, data |-> r.data],
                       !.out = Append(@, r.ret),
                       !.animate_group_start = 0])

\* parser.rs:449-483: what an identifier not followed by a parenthesis does
BareToken(S, ident, start) ==
    IF StartsWith(ident, "_")                                            \* :449
    THEN With(TrimStartMatches(ident, {"_"}), LAMBDA cname :
             PushBase(S, IF cname \in DOMAIN S.local_components
                         THEN S.local_components[cname]
                         ELSE Tokens(S.components, cname)))
    ELSE IF ident = "forwards"                                           \* :461
    THEN PushBase(S, <<"animfill:forwards">>)
    ELSE IF ident \in DOMAIN S.components                                \* :467
    THEN PushBase(S, S.components[ident])
    ELSE With(PushBase(S, <<ident>>), LAMBDA T :                         \* :472
             IF StartsWith(ident, "animate:")
             THEN [T EXCEPT !.animate_mode = TRUE, !.animate_group_start = start]
             ELSE [T EXCEPT !.animate_mode = FALSE])

\* parser.rs:120-539: the loop over the attribute text from position i on
RECURSIVE ExpandLoop(_, _, _, _)
ExpandLoop(S, raw, i, order) ==
    With(Scan(raw, WhitespaceChars, FALSE, i), LAMBDA start :            \* :121
        IF start > Len(raw) THEN S                                       \* :124
        ELSE With(Scan(raw, WhitespaceChars \cup {"("}, TRUE, start),    \* :128
                  LAMBDA e :
            IF e <= Len(raw) /\ CharAt(raw, e) = "("                     \* :136
            THEN With(SkipGroup(raw, e + 1, 1), LAMBDA after :
                     With(Grouping(S, SubSeq(raw, start, e - 1),
                                   SubSeq(raw, e + 1, after - 2), order),
                          LAMBDA G :
                         ExpandLoop(IF G.animate_mode THEN G             \* :398
                                    ELSE Finalize(G, raw, start, after),
                                    raw, after, order)))
            ELSE With(BareToken(S, SubSeq(raw, start, e - 1), start),
                      LAMBDA B :
                     ExpandLoop(IF /\ ~B.animate_mode                    \* :484
                                   /\ B.pending.some
                                   /\ B.pending.c.animations # << >>
                                THEN Finalize(B, raw, start, e) ELSE B,
                                raw, e, order))))

\* parser.rs:62-550: the tokens returned for the attribute text raw, and the
\* visitor's components, the registry and the hash texts after the call
expand_grouping(raw, components, reg, sea, order) ==
    With(ExpandLoop(ParserState(components, reg, sea), raw, 1, order), LAMBDA S :
        IF ~S.pending.some THEN S                                        \* :540
        ELSE IF S.pending.c.animations # << >>                           \* :541
        THEN With(register_grouping_raw(
                      Trim(SubSeq(raw, Max(S.animate_group_start, 1), Len(raw))),
                      S.pending.c, S.reg),
                  LAMBDA r : [S EXCEPT !.reg = [map |-> r.map, data |-> r.data],
                                       !.out = Append(@, r.ret)])
        ELSE [S EXCEPT !.out = @ \o S.pending.c.base])                   \* :546

MaxAttrs == 3

\* class attributes the visitor meets: bare tokens before, after and without a
\* grouping, an exported component and its uses, an animation chain
Attributes ==
    {"flex",
     "flex hover(bg-red)",
     "hover(bg-red) flex",
     "$card(p-4 m-2)",
     "card mt-1",
     "+card(mt-1)",
     "animate:1s from(btn) md:btn",
     "md(p-4, m-2) div(a span(b))"}

\* parser.rs:44-48: a visitor is constructed for a file
ParseFile ==
    /\ vis_left > 0
    /\ vis_class_names' = {}
    /\ vis_components' = EmptyFn
    /\ vis_last' = NoAttr
    /\ vis_left' = vis_left - 1
    /\ UNCHANGED <<dmVars, genVars, watchVars, regVars, intVars, lkVars, engVars>>

\* parser.rs:666-680: visit_jsx_opening_element on a className string literal
VisitAttribute ==
    /\ vis_left > 0
    /\ \E raw \in Attributes, order \in HashOrders :
           With(expand_grouping(raw, vis_components, Registry, seahash, order),
                LAMBDA r :
               /\ r.ok
               /\ vis_class_names' = vis_class_names \cup SeqToSet(r.out)
               /\ vis_components' = r.components
               /\ reg_map' = r.reg.map
               /\ reg_data' = r.reg.data
               /\ seahash' = r.sea
               /\ vis_last' = [raw |-> raw, out |-> r.out])
    /\ vis_left' = vis_left - 1
    /\ UNCHANGED <<reg_calls, reg_last, reg_left>>
    /\ UNCHANGED <<dmVars, genVars, watchVars, intVars, lkVars, engVars>>

VisInit ==
    /\ DMIdle /\ GenIdle /\ WatchIdle
    /\ reg_map = EmptyFn
    /\ reg_data = EmptyFn
    /\ seahash = EmptyFn
    /\ reg_calls = {}
    /\ reg_last = NoRegCall
    /\ reg_left = 0
    /\ int_map = EmptyFn
    /\ int_strings = << >>
    /\ int_escaped = << >>
    /\ int_calls = {}
    /\ lk_pc = [t \in Threads |-> "idle"]
    /\ lk_held = [t \in Threads |-> 0]
    /\ lk_owner = [m \in Mutexes |-> "none"]
    /\ vis_class_names = {}
    /\ vis_components = EmptyFn
    /\ vis_last = NoAttr
    /\ vis_left = MaxAttrs
    /\ EngIdle

VisNext == ParseFile \/ VisitAttribute

SpecVis == VisInit /\ [][VisNext]_vars

(***************************************************************************)
(* Claims about the Grouping Parser                                        *)
(***************************************************************************)

\* the identifiers of raw that stand alone between whitespace, outside every
\* parenthesis
RECURSIVE BareTokens(_, _)
BareTokens(raw, i) ==
    With(Scan(raw, WhitespaceChars, FALSE, i), LAMBDA start :
        IF start > Len(raw) THEN {}
        ELSE With(Scan(raw, WhitespaceChars \cup {"("}, TRUE, start), LAMBDA e :
            IF e <= Len(raw) /\ CharAt(raw, e) = "("
            THEN BareTokens(raw, SkipGroup(raw, e + 1, 1))
            ELSE {SubSeq(raw, start, e - 1)} \cup BareTokens(raw, e)))

\* a bare token that names a component: written _name or $name, or a key of
\* the visitor's components
IsAlias(t) ==
    StartsWith(t, "_") \/ StartsWith(t, "$") \/ t \in DOMAIN vis_components

\* C14: every bare token of the class attribute last visited that is neither a
\* grouping nor a component alias is among the tokens expand_grouping returned
\* for that attribute, wherever it stands relative to the groupings.
C14_BareTokensEmitted ==
    \A t \in BareTokens(vis_last.raw, 1) :
        ~IsAlias(t) => t \in SeqToSet(vis_last.out)

(***************************************************************************)
(* Style Engine behaviours: a driver resolves tokens and batches against   *)
(* the rule table while class attributes are visited and register          *)
(* composites in between (engine.rs:153-250, :611-815)                     *)
(***************************************************************************)
MaxResolves == 2

MaxEngAttrs == 1

\* the tokens the driver resolves: static, colour, scale and animation
\* utilities, variant-prefix chains, tokens the attributes register, and tokens
\* no source matches
EngTokens ==
    {"btn", "zz", "p-2", "p-4", "p--4", "p-x-3", "p-", "z-10", "z--3", "z--0", "p-x",
     "bg-red", "md:hover:bg-red", "hover:md:p-4", "md:btn", "group-hover:p-4",
     "animate:1s", "animate:p-4", "transition(2s)", "from(a):btn",
     "hover(bg-red)", "md:hover(bg-red)", "animate:1s from(btn) md:btn"}

\* the batches the driver resolves: animate: tokens with and without stage
\* tokens, stage tokens that resolve and that do not, a batch without animation
EngBatches ==
    {<<"animate:500ms:100ms", "from(opacity-0)", "to(opacity-100)">>,
     <<"animate:1s", "forwards">>,
     <<"from(zz)", "animate:1s", "btn">>,
     <<"animate:1s", "via(p-4)", "forwards", "btn">>,
     <<"to(bg-red)", "animate:2s:1s", "from(btn)">>,
     <<"btn", "md:btn">>}

\* engine.rs:153: compute_css for one token, with the registry as it is now
Resolve ==
    /\ eng_left > 0
    /\ \E t \in EngTokens :
           With(compute_css(t, reg_data), LAMBDA css :
               /\ eng_last' = [NoEngCall EXCEPT !.op = "resolve", !.token = t,
                                                !.css = css]
               /\ eng_seen' = IF t \in DOMAIN eng_seen THEN eng_seen
                              ELSE HashMapInsert(eng_seen, t, css))
    /\ eng_left' = eng_left - 1
    /\ UNCHANGED <<dmVars, genVars, watchVars, regVars, intVars, lkVars, visVars>>

\* engine.rs:611: generate_css_for_classes_batch for one batch
ResolveBatch ==
    /\ eng_left > 0
    /\ \E b \in EngBatches :
           eng_last' = [NoEngCall EXCEPT
                           !.op = "batch", !.batch = b,
                           !.rules = generate_css_for_classes_batch(b, reg_data)]
    /\ eng_left' = eng_left - 1
    /\ UNCHANGED eng_seen
    /\ UNCHANGED <<dmVars, genVars, watchVars, regVars, intVars, lkVars, visVars>>

EngInit ==
    /\ DMIdle /\ GenIdle /\ WatchIdle
    /\ reg_map = EmptyFn
    /\ reg_data = EmptyFn
    /\ seahash = EmptyFn
    /\ reg_calls = {}
    /\ reg_last = NoRegCall
    /\ reg_left = 0
    /\ int_map = EmptyFn
    /\ int_strings = << >>
    /\ int_escaped = << >>
    /\ int_calls = {}
    /\ LockIdle
    /\ vis_class_names = {}
    /\ vis_components = EmptyFn
    /\ vis_last = NoAttr
    /\ vis_left = MaxEngAttrs
    /\ eng_last = NoEngCall
    /\ eng_seen = EmptyFn
    /\ eng_left = MaxResolves

EngNext == Resolve \/ ResolveBatch \/ VisitAttribute

SpecEng == EngInit /\ [][EngNext]_vars

(***************************************************************************)
(* Generator behind the parser: class attributes are visited and register  *)
(* composites, and generate_css_ids is called with the engine that reads   *)
(* the Composite Registry (engine.rs:423-430)                              *)
(***************************************************************************)
MaxSheetAttrs == 1

MaxSheetCalls == 2

\* the ids of btn and of the synthetic name of the composite
SheetClassIds == {0, 5}

SheetInit ==
    /\ DMIdle /\ WatchIdle
    /\ out_file = NoFile
    /\ LAST_STATE = 0
    /\ since_gen = DEBOUNCE_MS
    /\ PREV_CLASS_IDS = {}
    /\ NORMALIZED_CSS_CACHE = EmptyFn
    /\ NORMALIZE_CACHE = EmptyFn
    /\ PATH_CONTENT_CACHE = Option_None
    /\ last_call = NoCall
    /\ calls_left = MaxSheetCalls
    /\ reg_map = EmptyFn
    /\ reg_data = EmptyFn
    /\ seahash = EmptyFn
    /\ reg_calls = {}
    /\ reg_last = NoRegCall
    /\ reg_left = 0
    /\ int_map = EmptyFn
    /\ int_strings = << >>
    /\ int_escaped = << >>
    /\ int_calls = {}
    /\ LockIdle
    /\ vis_class_names = {}
    /\ vis_components = EmptyFn
    /\ vis_last = NoAttr
    /\ vis_left = MaxSheetAttrs
    /\ EngIdle

\* one generate_css_ids call with the composites registered so far
GenerateSheet ==
    /\ calls_left > 0
    /\ \E class_ids \in SUBSET SheetClassIds, force_format \in BOOLEAN :
           Returned(generate_css_ids(GenState, class_ids, reg_data, force_format, IoOk),
                    class_ids, force_format)
    /\ calls_left' = calls_left - 1
    /\ UNCHANGED <<dmVars, watchVars, libVars>>

SheetNext == VisitAttribute \/ GenerateSheet \/ Tick

SpecSheet == SheetInit /\ [][SheetNext]_vars

(***************************************************************************)
(* Claims about the Style Engine                                           *)
(***************************************************************************)
\* the token without its variant-prefix chain: what follows the last colon
BaseToken(t) ==
    IF RFind(t, ":") = 0 THEN t ELSE SubSeq(t, RFind(t, ":") + 1, Len(t))

\* what the variant-prefix chain of the token, the segments before the last
\* colon, contributes to the rule
VariantPrefix(t) ==
    IF RFind(t, ":") <= 1 THEN NoPrefix
    ELSE PrefixParts(Split(SubSeq(t, 1, RFind(t, ":") - 1), ":"), NoPrefix)

\* the six sources of a declaration body, in the order of the resolution
Sources(t, registry) ==
    <<expand_composite(t, registry),
      IF BaseToken(t) \in DOMAIN precompiled
      THEN Option_Some(precompiled[BaseToken(t)]) ELSE Option_None,
      generate_color_css(BaseToken(t)),
      IF Contains(t, " ") THEN Option_None ELSE generate_animation_css(t),
      generate_dynamic_css(BaseToken(t)),
      expand_composite(BaseToken(t), registry)>>

IsStageToken(t) ==
    StartsWith(t, "from(") \/ StartsWith(t, "to(") \/ StartsWith(t, "via(")

\* the driver has just resolved a token
Resolved == eng_left' < eng_left /\ eng_last'.op = "resolve"

FirstMatchUsed(t, css, registry) ==
    /\ \A i \in 1 .. 6 :
           (/\ Sources(t, registry)[i].some
            /\ \A j \in 1 .. (i - 1) : ~Sources(t, registry)[j].some)
           => (\/ css = RenderRule(t, Sources(t, registry)[i], VariantPrefix(t))
               \/ IsStageToken(t) /\ ~css.some)
    /\ (\A i \in 1 .. 6 : ~Sources(t, registry)[i].some) => ~css.some

\* C15: the rule compute_css returns for a token is built from the
\* declaration body of the first source that matches, in the order registry on
\* the full token, static table on the base token, colour utility, animation
\* stub (token without a space), scale utility, registry on the base token; a
\* token no source matches has no rule.  (Tokens that begin with from(, to( or
\* via( are never resolved on their own and have no rule.)
C15_FirstMatchingSourceWins ==
    [][Resolved => FirstMatchUsed(eng_last'.token, eng_last'.css, reg_data)]_vars

\* a registered token whose base token is a static utility has been resolved
C15_Witness ==
    /\ eng_last.op = "resolve"
    /\ eng_last.token \in DOMAIN reg_data
    /\ BaseToken(eng_last.token) \in DOMAIN precompiled
    /\ eng_last.css.some

\* the segments of the variant-prefix chain of the token
ChainSegments(t) ==
    IF RFind(t, ":") <= 1 THEN << >>
    ELSE Split(SubSeq(t, 1, RFind(t, ":") - 1), ":")

\* a state whose value is a suffix of the selector, not a wrapper around it
IsPseudoState(name) == name \in DOMAIN states /\ ~Contains(states[name], "&")

\* the chain holds one breakpoint segment and one pseudo-state segment, in
\* either order
BreakpointAndState(t, bp, st) ==
    /\ bp \in DOMAIN screens
    /\ IsPseudoState(st)
    /\ ChainSegments(t) \in {<<bp, st>>, <<st, bp>>}

\* the token with a backslash before every colon
EscapedColons(t) == ReplaceChar(t, ":", "\\:")

\* the text is one rule with the given selector inside one @media block for
\* the given width
IsMediaWrappedRule(css, selector, width) ==
    /\ StartsWith(css, "@media (min-width: " \o width \o ") {\n  "
                       \o selector \o " {\n    ")
    /\ EndsWith(css, ";\n  }\n}\n")
    /\ Cardinality({i \in 1 .. Len(css) : CharAt(css, i) = "{"}) = 2
    /\ Cardinality({i \in 1 .. Len(css) : CharAt(css, i) = "}"}) = 2

\* C16: the rule returned for a token whose variant-prefix chain holds a
\* breakpoint segment and a pseudo-state segment has the selector made of the
\* escaped full token followed by the state's pseudo-suffix, and is wrapped in
\* @media (min-width: W) for the breakpoint's width W.
C16_VariantNesting ==
    [][Resolved =>
          \A bp \in DOMAIN screens, st \in DOMAIN states :
              (BreakpointAndState(eng_last'.token, bp, st) /\ eng_last'.css.some)
              => IsMediaWrappedRule(eng_last'.css.v,
                                    "." \o EscapedColons(eng_last'.token)
                                        \o states[st],
                                    screens[bp])]_vars

\* md:hover:bg-red has been resolved to a rule
C16_Witness ==
    /\ eng_last.op = "resolve"
    /\ eng_last.token = "md:hover:bg-red"
    /\ eng_last.css.some
    /\ BreakpointAndState(eng_last.token, "md", "hover")

\* the numbers n of the scale tokens <prefix>-<n> the claim is checked for
MaxScale == 10

\* the decimal text of n * num / den for den 1 or 100: no point for a whole
\* number, else one or two digits after the point
ScaledText(n, m) ==
    With((n * m.num * 100) \div m.den, LAMBDA hundredths :
        ToString(hundredths \div 100)
        \o (IF hundredths % 100 = 0 THEN ""
            ELSE IF hundredths % 10 = 0
            THEN "." \o ToString((hundredths % 100) \div 10)
            ELSE "." \o ToString((hundredths % 100) \div 10)
                     \o ToString(hundredths % 10)))

\* the rule of a token of name characters with the one declaration decl
OneDeclarationRule(t, decl) == "." \o t \o " {\n  " \o decl \o ";\n}\n"

\* no resolution step before the scale utility matches the token
NoEarlierSource(t, registry) == \A i \in 1 .. 4 : ~Sources(t, registry)[i].some

ScaleYields(t, css, registry) ==
    \A k \in 1 .. Len(generators), n \in 0 .. MaxScale, negated \in BOOLEAN :
        (/\ t = generators[k].prefix \o "-" \o (IF negated THEN "-" ELSE "")
                \o ToString(n)
         /\ NoEarlierSource(t, registry))
        => css = Option_Some(OneDeclarationRule(t,
                     generators[k].property \o ": "
                     \o (IF negated THEN "-" ELSE "")
                     \o ScaledText(n, generators[k].multiplier)
                     \o generators[k].unit))

\* C17: for a scale generator (prefix, property, multiplier, unit) and a number
\* n, the token <prefix>-<n> that no earlier resolution step matches yields the
\* declaration property: (n * multiplier)unit, and <prefix>--<n> the negated
\* value; with multiplier 0.25 and unit rem, p-4 yields padding: 1rem and p--4
\* yields padding: -1rem.
C17_ScaleArithmetic ==
    [][Resolved =>
          /\ ScaleYields(eng_last'.token, eng_last'.css, reg_data)
          /\ eng_last'.token = "p-4"
             => eng_last'.css = Option_Some(OneDeclarationRule("p-4", "padding: 1rem"))
          /\ eng_last'.token = "p--4"
             => eng_last'.css = Option_Some(OneDeclarationRule("p--4", "padding: -1rem"))]_vars

\* p--4 has been resolved by the scale generator of padding
C17_Witness ==
    /\ eng_last.op = "resolve"
    /\ eng_last.token = "p--4"
    /\ NoEarlierSource(eng_last.token, reg_data)
    /\ eng_last.css.some
    /\ generators[1].prefix = "p"

\* how often pat stands in the texts of rules
Occurrences(rules, pat) ==
    Cardinality(UNION {{<<k, i>> : i \in {j \in 1 .. Len(rules[k]) :
                                               StartsWithAt(rules[k], pat, j)}} :
                       k \in 1 .. Len(rules)})

AnimateTokens(batch) == {t \in SeqToSet(batch) : StartsWith(t, "animate:")}

\* the from(..), to(..), via(..) and forwards tokens of the batch
CompanionTokens(batch) ==
    {t \in SeqToSet(batch) : IsStageToken(t) \/ t = "forwards"}

\* the stage tokens of the batch that begin with pre and whose body resolves
\* to at least one declaration
ResolvingStages(batch, pre) ==
    {t \in SeqToSet(batch) :
        /\ StageBody(t, pre).some
        /\ resolve_animation_tokens(
               <<Join(SplitNonEmpty(StageBody(t, pre).v, WhitespaceChars), "+")>>) # ""}

\* the selector of the first word of the token
BaseSelector(t) == "." \o serialize_identifier(SplitNonEmpty(t, WhitespaceChars)[1])

\* no rule of the result is a rule of a from/to/via/forwards token
NoStandaloneCompanionRule(batch, rules) ==
    \A t \in CompanionTokens(batch) :
        Occurrences(rules, "." \o serialize_identifier(t) \o " {") = 0

\* the animate token a gives one @keyframes block, with the from stage at 0%
\* and the to stage at 100%, and one animation declaration on its base selector
OneKeyframesOneAnimation(batch, rules, a) ==
    /\ Occurrences(rules, "@keyframes dx-animation-"
                          \o SeaHashHex(BaseSelector(a)) \o " {\n") = 1
    /\ Occurrences(rules, BaseSelector(a) \o " {\n  animation: ") = 1
    /\ ResolvingStages(batch, "from(") # {} => Occurrences(rules, "{\n  0% { ") = 1
    /\ ResolvingStages(batch, "to(") # {} => Occurrences(rules, "\n  100% { ") = 1

\* C18 as stated: for any batch that holds an animate: token together with
\* from(..), to(..), via(..) or forwards tokens, the result has no standalone
\* rule for a from/to/via/forwards token and every animate token yields exactly
\* one @keyframes block and one animation declaration on its base selector.
C18_AnyCompanionAssembles ==
    (/\ eng_last.op = "batch"
     /\ AnimateTokens(eng_last.batch) # {}
     /\ CompanionTokens(eng_last.batch) # {})
    => /\ NoStandaloneCompanionRule(eng_last.batch, eng_last.rules)
       /\ \A a \in AnimateTokens(eng_last.batch) :
              OneKeyframesOneAnimation(eng_last.batch, eng_last.rules, a)

\* C18 amended: for any batch that holds an animate: token together with
\* from(..), to(..), via(..) or forwards tokens, the result has no standalone
\* rule for a from/to/via/forwards token; and when at least one from(..),
\* to(..) or via(..) token of the batch resolves to a declaration, every animate
\* token yields exactly one @keyframes block (from at 0%, to at 100%) and one
\* animation declaration on its base selector.
C18_ResolvingStageAssembles ==
    (/\ eng_last.op = "batch"
     /\ AnimateTokens(eng_last.batch) # {}
     /\ CompanionTokens(eng_last.batch) # {})
    => /\ NoStandaloneCompanionRule(eng_last.batch, eng_last.rules)
       /\ (\E pre \in {"from(", "to(", "via("} :
               ResolvingStages(eng_last.batch, pre) # {})
          => \A a \in AnimateTokens(eng_last.batch) :
                 OneKeyframesOneAnimation(eng_last.batch, eng_last.rules, a)

\* a batch with an animate: token, a from stage and a to stage that resolve has
\* been given to the engine
C18_Witness ==
    /\ eng_last.op = "batch"
    /\ AnimateTokens(eng_last.batch) # {}
    /\ ResolvingStages(eng_last.batch, "from(") # {}
    /\ ResolvingStages(eng_last.batch, "to(") # {}
    /\ Occurrences(eng_last.rules, "@keyframes ") = 1

\* C19: resolving the same class token at two points of a run with the same
\* rule table yields the same CSS text, or no result both times, whatever
\* parsing and Composite registrations happened in between: the result of the
\* last resolution is the result the token had when it was first resolved.
C19_SameTokenSameCss ==
    eng_last.op = "resolve" => eng_last.css = eng_seen[eng_last.token]

(***************************************************************************)
(* Claims about the file-to-class-set map under the watcher's handlers     *)
(***************************************************************************)
\* the step handled an event of path and the file contributes no class after
\* it: process_file_remove ran for path, or process_file_change ran for path
\* and the parser found no class in the file (a change that finds classes
\* leaves a non-empty set for the file)
HandledWithoutClasses(path) ==
    /\ path \in batch_paths' \ batch_paths
    /\ FileSet(file_ids', path) = {}

\* C20: after a file is removed (process_file_remove) or re-parsed and found to
\* contribute zero classes (process_file_change), the file-to-class-set map has
\* no entry for that file.
C20_NoEntryForFileWithoutClasses ==
    [][\A path \in Files :
           HandledWithoutClasses(path) => path \notin DOMAIN file_ids']_vars

(***************************************************************************)
(* Claims about the micro-patch                                            *)
(***************************************************************************)
\* the call of the step returned through the micro-patch path
PatchStep == CallStep /\ last_call'.path = "patch"

\* the ids the micro-patch of the step was to remove, and those that stay:
\* old_ids is PREV_CLASS_IDS as the call found it (generator.rs:985)
RemovedIds == PREV_CLASS_IDS \ last_call'.class_ids

StayingIds == PREV_CLASS_IDS \cap last_call'.class_ids

\* C21: after every micro-patch that returns success, the output text holds no
\* rule block of any removed class, also for class names with characters that
\* CSS escapes and also when the same patch appends rules for added classes.
C21_RemovedClassHasNoBlock ==
    [][PatchStep =>
          \A id \in RemovedIds :
              ClassRuleBlocks(id) \cap RuleBlockSet(out_file'.content) = {}]_vars

\* C22: removing a class through the micro-patch never deletes or alters the
\* rule block of a different class that stays active, including when the
\* removed name is a prefix of the other name: every block of a staying class
\* that the file held before the patch is in the file after it.
C22_StayingBlocksUntouched ==
    [][(PatchStep /\ RemovedIds # {}) =>
          \A id \in StayingIds :
              (ClassRuleBlocks(id) \cap RuleBlockSet(out_file.content))
                  \subseteq RuleBlockSet(out_file'.content)]_vars


\* the text patch_css_file computes for the step (generator.rs:234-256): the
\* file content without the removed rules and with the added rules appended
PatchedText ==
    AppendNewRules(
        RemoveOldRules(out_file.content, SortedSeq(RemovedIds), FALSE).content,
        NormalizeAll(
            generate_css_for_classes_batch(
                NamesOf(SortedSeq(last_call'.class_ids \ PREV_CLASS_IDS)), NoRegistry),
            NORMALIZE_CACHE).texts,
        FALSE).content

\* C23: whenever patch_css_file returns true for a non-empty delta, the patched
\* text it computed has been written to the output file, including when that
\* text has the byte length of the original content.
C23_PatchedTextWritten ==
    [][(PatchStep /\ last_call'.class_ids # PREV_CLASS_IDS) =>
          out_file'.content = PatchedText]_vars


(***************************************************************************)
(* Claims about the caches and the snapshot of generate_css_ids            *)
(***************************************************************************)
\* the normalized rule the Style Engine resolves for the class name of id
\* alone; "" when the name resolves to nothing
OwnNormalizedCss(id) ==
    With(generate_css_for_classes_batch(<<interner_get(id)>>, NoRegistry), LAMBDA rules :
        IF Len(rules) = 0 THEN ""
        ELSE normalize_generated_css(rules[1], EmptyFn).text)

\* C24: after any sequence of generate_css_ids calls, every entry of the
\* per-class-ID normalized-CSS cache holds the normalized CSS that the Style
\* Engine resolves for that id's own class name, also when the batch resolved
\* together with it held classes that resolve to nothing.
C24_CacheEntryIsOwnCss ==
    \A id \in DOMAIN NORMALIZED_CSS_CACHE :
        NORMALIZED_CSS_CACHE[id] = OwnNormalizedCss(id)


\* C25: generate_css_ids records the new id snapshot and identity hash exactly
\* when the output file holds the stylesheet of the new set: a full regeneration
\* that leaves the file with the stylesheet it built records them, and one whose
\* open or write failed leaves them as they were, so that the next call retries.
C25_SnapshotOnlyWithFile ==
    [][(CallStep /\ last_call'.path = "full") =>
          IF out_file'.exists /\ out_file'.content = BuiltStylesheet
          THEN /\ PREV_CLASS_IDS' = last_call'.class_ids
               /\ LAST_STATE' = direct_hash_of(last_call'.class_ids)
          ELSE UNCHANGED <<PREV_CLASS_IDS, LAST_STATE>>]_vars

\* the step is a call that tried the micro-patch for a non-empty delta
\* (generator.rs:961, 978, 984-986) and did not return through it
PatchAttemptFails ==
    /\ CallStep
    /\ ~last_call'.force_format
    /\ since_gen >= DEBOUNCE_MS
    /\ LAST_STATE # 0
    /\ LAST_STATE # direct_hash_of(last_call'.class_ids)
    /\ out_file.exists
    /\ last_call'.class_ids # PREV_CLASS_IDS
    /\ last_call'.path # "patch"

\* C26: when a micro-patch attempt for a non-empty delta cannot read the output
\* file, cannot write it or changes no text, the same generate_css_ids call goes
\* on to full regeneration and returns: no error reaches the caller.
C26_FailedPatchFallsThrough ==
    [][PatchAttemptFails => last_call'.path = "full"]_vars


(***************************************************************************)
(* Claims about the composites the Grouping Parser registers               *)
(***************************************************************************)
\* the registry keys that are raw source text, not synthetic hash names
RawNames == {name \in DOMAIN reg_data : ~StartsWith(name, "dx-class-")}

\* C27: a pending Composite that expand_grouping finalizes is registered under
\* its trimmed raw source slice only if it has animation fragments; one without
\* animation fragments is registered by content hash as dx-class-<hash8>.
C27_RawNameOnlyForAnimations ==
    \A name \in RawNames : reg_data[name].animations # << >>


\* the registry data after expand_grouping has parsed text alone: no token
\* before it, no component defined and nothing registered
RegisteredAlone(text) ==
    expand_grouping(text, EmptyFn, [map |-> EmptyFn, data |-> EmptyFn], EmptyFn,
                    CHOOSE order \in HashOrders : TRUE).reg.data

\* C29: the Composite stored under a raw-source name is determined by that source
\* text alone: it is the Composite the text registers when parsed by itself,
\* whatever bare tokens preceded the grouping in the attributes visited and
\* whichever attribute was visited first.
C29_RawCompositeFromTextAlone ==
    \A name \in RawNames :
        With(RegisteredAlone(name), LAMBDA alone :
            name \in DOMAIN alone /\ alone[name] = reg_data[name])


(***************************************************************************)
(* Claims about the stylesheet of composite classes                        *)
(***************************************************************************)
\* the Style Engine resolves the class name of id to a rule with declarations
ResolvesToRule(id) ==
    With(compute_css(interner_get(id), reg_data), LAMBDA css :
        css.some /\ Contains(css.v, ";"))

\* text holds a rule whose selector starts with the escaped class name of id
HasBlockOf(text, id) ==
    Contains(text, "." \o serialize_identifier(interner_get(id)))

\* C28: for every active class id whose class name the Style Engine resolves to
\* a rule with declarations, the stylesheet written by a full regeneration holds
\* a rule block for that class, also for hash-keyed composite classes named
\* dx-class-<hash8>.
C28_ResolvedClassHasBlock ==
    [][(CallStep /\ last_call'.path = "full") =>
          \A id \in last_call'.class_ids :
              ResolvesToRule(id) => HasBlockOf(out_file'.content, id)]_vars


(***************************************************************************)
(* Claims about the locking of the two threads                             *)
(***************************************************************************)
\* thread t has dropped its guards
Released(t) == lk_held[t] = 0 /\ lk_pc[t] # "locking"

\* C30: the control loop and the background thread never deadlock: in every
\* interleaving of the control loop's four lock acquisitions with the background
\* thread's two, a thread that starts locking eventually holds all its mutexes,
\* and a thread that holds them eventually releases them.
C30_LocksObtainedAndReleased ==
    \A t \in Threads :
        /\ (lk_pc[t] = "locking") ~> HoldsAll(t)
        /\ HoldsAll(t) ~> Released(t)

\* the control loop holds the two maps and waits for the global set, which the
\* background thread has locked on its way to the interner
C30_Witness ==
    /\ lk_pc["loop"] = "locking" /\ lk_held["loop"] = 2
    /\ lk_pc["bg"] = "locking" /\ lk_held["bg"] = 1
    /\ lk_owner["global_classnames_ids"] = "bg"

====
